---------------------------- MODULE Spec2Model ----------------------------
(***************************************************************************)
(* Model of the context bridge's capture-and-interaction engine            *)
(* (src/context-bridge/capture.py, class FrontendCapture) and of the       *)
(* endpoints and hooks of src/context-bridge/main.py that drive it.        *)
(*                                                                         *)
(* One coroutine runs at a time; `fn` names the method it executes and     *)
(* `pc` the statement about to run.  Every await on the browser driver     *)
(* (Playwright) is one step whose outcome, return or raise, is chosen      *)
(* nondeterministically.                                                   *)
(***************************************************************************)
EXTENDS Integers, Sequences, FiniteSets, TLC

VARIABLES
    fn,         \* method being executed: "interact_with_page", "capture_frontend",
                \* "_analyze_dom", "_analyze_accessibility", "startup_event", "cleanup"
    pc,         \* statement of `fn` about to run, or "returned" / "raised"
    pages,      \* pages created in the shared context by this request: "open" | "closed"
    page,       \* local `page`: index into pages, 0 while unbound
    exc,        \* exception in flight or propagated to the caller (Optional)
    calls,      \* driver calls awaited so far, in order
    actions,    \* interact_with_page: the `actions` argument
    idx,        \* interact_with_page: position of the for loop in `actions`
    results,    \* interact_with_page: local `results`
    site,       \* capture_frontend: what the page at `url` serves
    options,    \* capture_frontend: the `options` argument
    viewport,   \* capture_frontend: the `viewport` argument
    viewport_size, \* capture_frontend: page.viewport_size of the request's page
    load_time,  \* capture_frontend: local `load_time`
    context,    \* capture_frontend: local `context` (Optional)
    stages,     \* capture_frontend: pipeline stages entered so far, in order
    console_logs,  \* capture_frontend: local `console_logs`, filled by the listener
    response,   \* main.py: what the endpoint answers (Optional)
    endpoint,   \* main.py: the route serving the request, "" when a method is called directly
    capture_after, \* main.py: request.capture_after of an /interact request
    request,    \* number of the request whose coroutine is running
    frames,     \* the coroutines suspended at an await: request number -> frame
    capture_system, \* main.py: whether the global capture_system is assigned
    self_playwright, \* FrontendCapture.playwright: "none" | "open" | "closed"
    self_browser,   \* FrontendCapture.browser: "none" | "open" | "closed"
    self_context,   \* FrontendCapture.context: "none" | "open" | "closed"
    connected   \* what self.browser.is_connected() answers

interactVars == <<actions, idx, results>>
captureVars == <<site, options, viewport, viewport_size, load_time, context, stages,
                 console_logs>>
requestVars == <<endpoint, capture_after, request, frames>>
sessionVars == <<capture_system, self_playwright, self_browser, self_context, connected>>
vars == <<fn, pc, pages, page, exc, calls, interactVars, captureVars, response,
          requestVars, sessionVars>>

---------------------------------------------------------------------------
\* Bounds of the model.

\* Longest action list passed to interact_with_page.
MaxActions == 2

---------------------------------------------------------------------------
\* Python values.

\* Optional[T]: None is the empty sequence, a value v is <<v>>.
None == <<>>
Some(v) == <<v>>

\* Truth value of an Optional[str] in `if x:` (None and "" are falsy).
TruthyStr(o) == o # None /\ o[1] # ""

\* Truth value of an Optional[int] in `x or default` (None and 0 are falsy).
TruthyInt(o) == o # None /\ o[1] # 0

\* Truth value of an Optional[Dict] in `if x:` (None and {} are falsy).
TruthyDict(o) == o # None /\ DOMAIN o[1] # {}

\* The empty dict {}.
EmptyDict == <<>>

---------------------------------------------------------------------------
\* Browser driver.

\* What an awaited driver call can do.
DriverOutcomes == {"ok", "raise"}

\* str(e) of the error a failed driver call raises (Playwright errors always
\* carry a message).
DriverError(op) == "Error: " \o op \o " failed"

\* str(e) of KeyError raised by d[key].
KeyErrorStr(key) == "'" \o key \o "'"

\* One entry of the driver-call log: operation, the page it is called on (0: the
\* shared context), the position in `actions` or in the capture pipeline it
\* serves (0: neither), the milliseconds passed (0: none), how the call
\* ended, and the request whose coroutine awaited it.  The driver calls of one pipeline stage are logged as one entry,
\* which ends "raise" when any of them raised.
Call(op, at, ms, out) ==
    [op |-> op, page |-> page, at |-> at, ms |-> ms, out |-> out, by |-> request]

\* The state a page can be left in by a close() that raised.
AfterFailedClose == {"open", "closed"}

\* A driver whose page.close() takes the browsing context of the page down
\* with it.
ContextClosedWithPage(ctx) == "closed"

\* The browsing context after `await page.close()`: closing a page leaves
\* the context it was created in as it is.
ContextAfterPageClose(ctx) == ctx

---------------------------------------------------------------------------
\* models.py

\* InteractionAction(type, selector, value, coordinates, duration, url)
InteractionAction(type, selector, value, coordinates, duration, url) ==
    [type |-> type, selector |-> selector, value |-> value,
     coordinates |-> coordinates, duration |-> duration, url |-> url]

\* InteractionResult(action, success, error); result_data stays None and the
\* timestamp is not modelled.
InteractionResult(action, success, error) ==
    [action |-> action, success |-> success, error |-> error]

\* Representative request payloads: every branch of the dispatch in
\* interact_with_page, with absent, falsy and truthy fields.
XY == [x |-> 10, y |-> 20]
ActionAlphabet ==
    { InteractionAction("click", Some("#btn"), None, None, None, None),
      InteractionAction("click", None, None, Some(XY), None, None),
      InteractionAction("click", None, None, Some([y |-> 20]), None, None),
      InteractionAction("click", None, None, None, None, None),
      InteractionAction("fill", Some("#name"), Some("v"), None, None, None),
      InteractionAction("fill", Some("#name"), Some(""), None, None, None),
      InteractionAction("fill", None, Some("v"), None, None, None),
      InteractionAction("wait", None, None, None, None, None),
      InteractionAction("wait", None, None, None, Some(0), None),
      InteractionAction("wait", None, None, None, Some(250), None),
      InteractionAction("scroll", None, None, Some(XY), None, None),
      InteractionAction("scroll", None, None, None, None, None),
      InteractionAction("navigate", None, None, None, None, Some("http://b")),
      InteractionAction("navigate", None, None, None, None, None),
      InteractionAction("hover", Some("#btn"), None, None, None, None) }

\* Sequences over S of length at most n.
SeqUpTo(S, n) == UNION { [1..k -> S] : k \in 0..n }

\* The list of n copies of v.
Repeat(v, n) == [i \in 1..n |-> v]

---------------------------------------------------------------------------
\* FrontendCapture.interact_with_page (capture.py 565-628)

\* The action types the dispatch recognises.
KnownTypes == {"click", "fill", "wait", "scroll", "navigate"}

\* `duration = action.duration or 1000`
WaitDuration(a) == IF TruthyInt(a.duration) THEN a.duration[1] ELSE 1000

\* The dict key whose lookup raises KeyError before the driver is called
\* (coordinates["x"], then coordinates["y"]), or None.
MissingKey(a) ==
    IF /\ \/ a.type = "click" /\ ~TruthyStr(a.selector)
          \/ a.type = "scroll"
       /\ TruthyDict(a.coordinates)
    THEN IF "x" \notin DOMAIN a.coordinates[1] THEN Some("x")
         ELSE IF "y" \notin DOMAIN a.coordinates[1] THEN Some("y")
         ELSE None
    ELSE None

\* The driver call the dispatch awaits for action a, or None when the branch
\* taken awaits nothing.
DriverOp(a) ==
    IF MissingKey(a) # None THEN None
    ELSE IF a.type = "click" THEN
        IF TruthyStr(a.selector) THEN Some("click")
        ELSE IF TruthyDict(a.coordinates) THEN Some("mouse.click")
        ELSE None
    ELSE IF a.type = "fill" THEN
        IF TruthyStr(a.selector) /\ TruthyStr(a.value) THEN Some("fill") ELSE None
    ELSE IF a.type = "wait" THEN Some("wait_for_timeout")
    ELSE IF a.type = "scroll" THEN
        IF TruthyDict(a.coordinates) THEN Some("mouse.wheel")
        ELSE Some("keyboard.press")
    ELSE IF a.type = "navigate" THEN
        IF TruthyStr(a.url) THEN Some("goto") ELSE None
    ELSE None

\* Whether the branch taken for a reaches its `result.success = True` when
\* nothing raises.
SetsSuccess(a) ==
    \/ a.type = "click"
    \/ a.type = "fill" /\ TruthyStr(a.selector) /\ TruthyStr(a.value)
    \/ a.type = "wait"
    \/ a.type = "scroll"
    \/ a.type = "navigate" /\ TruthyStr(a.url)

\* The else branch: `result.error = f"Unknown action type: {action.type}"`.
UnknownTypeError(a) == "Unknown action type: " \o a.type

\* A result labelled with the type of the first action of the list instead of
\* the type of the action it belongs to.
ResultActionStale(a) == actions[1].type

\* `action=action.type` of the result created for action a (575-579).
ResultAction(a) == a.type

\* The result of the inner try/except for action a when the driver call it
\* awaits (if any) ends with `out`.
ActionResult(a, out) ==
    IF MissingKey(a) # None
    THEN InteractionResult(ResultAction(a), FALSE,
                           Some(KeyErrorStr(MissingKey(a)[1])))
    ELSE IF DriverOp(a) # None /\ out = "raise"
    THEN InteractionResult(ResultAction(a), FALSE,
                           Some(DriverError(DriverOp(a)[1])))
    ELSE IF a.type \notin KnownTypes
    THEN InteractionResult(ResultAction(a), FALSE, Some(UnknownTypeError(a)))
    ELSE InteractionResult(ResultAction(a), SetsSuccess(a), None)

\* The driver calls action number k adds to the log.
ActionCalls(a, k, out) ==
    IF DriverOp(a) = None THEN <<>>
    ELSE <<Call(DriverOp(a)[1], k,
                IF a.type = "wait" THEN WaitDuration(a) ELSE 0, out)>>

\* Where the for loop goes when its next position is k.
LoopAt(k) == IF k <= Len(actions) THEN "action" ELSE "finally"

\* A loop that runs the body again for the same action, without the delay
\* and without advancing.
AfterActionRetry == "action"

\* Where the session goes after the result of an action is appended.
AfterAction == "delay"

\* Where the session goes when the inter-action delay raises: the delay is
\* inside the outer try only, so the outer except ends the loop.
AfterDelayRaise == "finally"

\* A navigation failure that returns without running the finally block.
AfterGotoRaiseNoFinally == "returned"

\* Where the session goes when the initial navigation raises: the outer except
\* logs, then finally.
AfterGotoRaise == "finally"

\* `page = await self.context.new_page()` (568), before the try.
InteractNewPage ==
    /\ fn = "interact_with_page" /\ pc = "new_page"
    /\ \E out \in DriverOutcomes :
         /\ calls' = Append(calls, Call("new_page", 0, 0, out))
         /\ IF out = "ok"
            THEN /\ pages' = Append(pages, "open")
                 /\ page' = Len(pages) + 1
                 /\ exc' = exc
                 /\ pc' = "goto"
            ELSE /\ exc' = Some(DriverError("new_page"))
                 /\ pc' = "raised"
                 /\ UNCHANGED <<pages, page>>
    /\ UNCHANGED <<fn, interactVars, captureVars, response, requestVars, sessionVars>>

\* `await page.goto(url, wait_until="networkidle", timeout=30000)` (572).
InteractGoto ==
    /\ fn = "interact_with_page" /\ pc = "goto"
    /\ \E out \in DriverOutcomes :
         /\ calls' = Append(calls, Call("goto", 0, 0, out))
         /\ pc' = IF out = "ok" THEN LoopAt(idx) ELSE AfterGotoRaise
    /\ UNCHANGED <<fn, pages, page, exc, interactVars, captureVars, response, requestVars, sessionVars>>

\* One pass of the loop body up to `results.append(result)` (575-618).
InteractAction ==
    /\ fn = "interact_with_page" /\ pc = "action"
    /\ \E out \in DriverOutcomes :
         /\ DriverOp(actions[idx]) = None => out = "ok"
         /\ calls' = calls \o ActionCalls(actions[idx], idx, out)
         /\ results' = Append(results, ActionResult(actions[idx], out))
    /\ pc' = AfterAction
    /\ UNCHANGED <<fn, pages, page, exc, actions, idx, captureVars, response, requestVars, sessionVars>>

\* `await page.wait_for_timeout(500)` (621), then the next iteration.
InteractDelay ==
    /\ fn = "interact_with_page" /\ pc = "delay"
    /\ \E out \in DriverOutcomes :
         /\ calls' = Append(calls, Call("wait_for_timeout", 0, 500, out))
         /\ IF out = "ok"
            THEN idx' = idx + 1 /\ pc' = LoopAt(idx + 1)
            ELSE idx' = idx /\ pc' = AfterDelayRaise
    /\ UNCHANGED <<fn, pages, page, exc, actions, results, captureVars, response, requestVars, sessionVars>>

\* `finally: await page.close()` then `return results` (625-628); an error of
\* close() leaves the finally block as the call's exception.
InteractFinally ==
    /\ fn = "interact_with_page" /\ pc = "finally"
    /\ \E out \in DriverOutcomes :
         /\ calls' = Append(calls, Call("close", 0, 0, out))
         /\ IF out = "ok"
            THEN /\ pages' = [pages EXCEPT ![page] = "closed"]
                 /\ exc' = exc
                 /\ pc' = "returned"
            ELSE /\ \E left \in AfterFailedClose :
                      pages' = [pages EXCEPT ![page] = left]
                 /\ exc' = Some(DriverError("close"))
                 /\ pc' = "raised"
    /\ self_context' = ContextAfterPageClose(self_context)
    /\ UNCHANGED <<fn, page, interactVars, captureVars, response, requestVars,
                   capture_system, self_playwright, self_browser, connected>>

InitInteract ==
    /\ fn = "interact_with_page"
    /\ pc = "new_page"
    /\ pages = <<>>
    /\ page = 0
    /\ exc = None
    /\ calls = <<>>
    /\ actions \in SeqUpTo(ActionAlphabet, MaxActions)
    /\ idx = 1
    /\ results = <<>>
    /\ site = None
    /\ options = None
    /\ viewport = None
    /\ viewport_size = None
    /\ load_time = 0
    /\ context = None
    /\ stages = <<>>
    /\ response = None
    /\ console_logs = <<>>
    /\ endpoint = ""
    /\ capture_after = FALSE
    /\ request = 1
    /\ frames = <<>>
    /\ capture_system = TRUE
    /\ self_playwright = "open"
    /\ self_browser = "open"
    /\ self_context = "open"
    /\ connected = TRUE

NextInteract ==
    \/ InteractNewPage
    \/ InteractGoto
    \/ InteractAction
    \/ InteractDelay
    \/ InteractFinally

SpecInteract == InitInteract /\ [][NextInteract]_vars

\* The coroutine is always resumed: every awaited driver call ends, by
\* returning or by raising (each carries a timeout).
FairSpecInteract == SpecInteract /\ WF_vars(NextInteract)

---------------------------------------------------------------------------
\* models.py: FrontendContext and PerformanceMetrics

\* PerformanceMetrics(load_time, first_contentful_paint, dom_content_loaded,
\* errors, warnings) with the defaults of models.py 39-45.
PerformanceMetrics(lt, fcp, dcl) ==
    [load_time |-> lt, first_contentful_paint |-> fcp,
     largest_contentful_paint |-> None, dom_content_loaded |-> dcl,
     errors |-> <<>>, warnings |-> <<>>]

\* FrontendContext(timestamp, url, title, viewport, console_logs): every other
\* field at its declared default (models.py 71-99).  The timestamp and the
\* url are not modelled.
FrontendContext(title, vp, logs) ==
    [title |-> title, viewport |-> vp,
     screenshot |-> None,
     elements |-> <<>>, forms |-> <<>>, buttons |-> <<>>, links |-> <<>>,
     inputs |-> <<>>, interactive |-> <<>>,
     interactions |-> EmptyDict,
     performance |-> None,
     accessibility |-> EmptyDict,
     responsive |-> EmptyDict,
     raw_html |-> None,
     console_logs |-> logs]

---------------------------------------------------------------------------
\* Markup and its extraction (capture.py 196-383).

\* Text whose letters matter is a sequence of one-character strings.
LowerLetters ==
    <<"a", "b", "c", "d", "e", "f", "g", "h", "i", "j", "k", "l", "m",
      "n", "o", "p", "q", "r", "s", "t", "u", "v", "w", "x", "y", "z">>

UpperLetters ==
    <<"A", "B", "C", "D", "E", "F", "G", "H", "I", "J", "K", "L", "M",
      "N", "O", "P", "Q", "R", "S", "T", "U", "V", "W", "X", "Y", "Z">>

\* str.upper() on one character: a-z map to A-Z, everything else is kept.
UpperChar(c) ==
    IF \E i \in DOMAIN LowerLetters : LowerLetters[i] = c
    THEN UpperLetters[CHOOSE i \in DOMAIN LowerLetters : LowerLetters[i] = c]
    ELSE c

\* str.upper()
Upper(str) == [i \in DOMAIN str |-> UpperChar(str[i])]

\* A method that is left as the markup spells it.
FormMethodAsWritten(m) == IF m = None THEN <<"G", "E", "T">> ELSE m[1]

\* `form.get('method', 'GET').upper()` (273) for the Optional attribute m.
FormMethod(m) == Upper(IF m = None THEN <<"G", "E", "T">> ELSE m[1])

\* A node of the parsed document: its tag, the attributes the extractors
\* look at (absent attributes are None) and its stripped text, here empty.
Node(tag, type, href, method, onclick, role) ==
    [tag |-> tag, type |-> type, href |-> href, method |-> method,
     onclick |-> onclick, role |-> role, text |-> <<>>]

\* The node n with `get_text(strip=True)` equal to t.
WithText(n, t) == [n EXCEPT !.text = t]

\* The slice bound of `[:200]` (220).
TextCap == 200

\* `element.get_text(strip=True)[:200] if element.get_text(strip=True) else
\* None` (220).
ElementText(n) ==
    IF n.text # <<>> THEN Some(SubSeq(n.text, 1, IF Len(n.text) < TextCap
                                                 THEN Len(n.text) ELSE TextCap))
    ELSE None

\* `button.get_text(strip=True) or button.get('value')` (267, 296); the nodes
\* carry no value attribute.
ButtonText(n) == IF n.text # <<>> THEN Some(n.text) ELSE None

\* `link.get_text(strip=True)` (316).
LinkText(n) == Some(n.text)

\* DOMElement(tag, attributes) built from a node, with the default text; id,
\* classes and the selector are not modelled.
DOMElement(n) == [tag |-> n.tag, type |-> n.type, href |-> n.href, text |-> None]

\* FormElement(action, method, inputs, submit_buttons); only the method is
\* modelled.
FormElement(n) == [method |-> FormMethod(n.method)]

\* InteractiveElement(type="clickable", selector, clickable=True).
InteractiveElement(selector) ==
    [type |-> "clickable", selector |-> selector, clickable |-> TRUE]

\* The caps of the extractors (233, 242, 304, 324, 363, 383).
ElementCap == 100
ButtonCap == 20
LinkCap == 30
PerSelectorCap == 10
InteractiveCap == 30

\* `important_tags` (202-211), in scan order.
ImportantTags ==
    <<"h1", "h2", "h3", "h4", "h5", "h6", "p", "div", "span", "section",
      "article", "nav", "header", "footer", "main", "aside",
      "button", "input", "textarea", "select", "option", "label", "form",
      "a", "img", "video", "audio", "canvas", "svg",
      "ul", "ol", "li", "table", "thead", "tbody", "tr", "td", "th",
      "blockquote", "pre", "code", "strong", "em", "small", "mark", "del",
      "ins", "sub", "sup">>

\* seq[:n]
Take(seq, n) == SubSeq(seq, 1, IF Len(seq) < n THEN Len(seq) ELSE n)

\* soup.find_all(tags): the nodes with one of the tags, in document order.
FindAll(nodes, tags) == SelectSeq(nodes, LAMBDA n : n.tag \in tags)

\* The inner loop of _extract_dom_elements for one tag (214-237): matches are
\* appended one by one and the loop breaks after the append that leaves
\* `elements` at the cap or above, so a tag met with the cap already reached
\* still appends its first match.
ScanTag(elements, matches) ==
    LET room == IF Len(elements) >= ElementCap THEN 1
                ELSE ElementCap - Len(elements)
    IN elements \o [i \in 1..Len(Take(matches, room)) |->
                       [DOMElement(matches[i]) EXCEPT !.text = ElementText(matches[i])]]

\* The outer loop over the first k important tags (213).
RECURSIVE ScanTags(_, _)
ScanTags(nodes, k) ==
    IF k = 0 THEN <<>>
    ELSE ScanTag(ScanTags(nodes, k - 1), FindAll(nodes, {ImportantTags[k]}))

\* An extractor that returns everything the scan collected.
ExtractDomElementsUncapped(nodes) == ScanTags(nodes, Len(ImportantTags))

\* An extractor that keeps the first hundred important nodes of the document,
\* in document order.
ExtractDomElementsDocumentOrder(nodes) ==
    LET found == FindAll(nodes, { ImportantTags[k] : k \in DOMAIN ImportantTags })
    IN Take([i \in 1..Len(found) |->
               [DOMElement(found[i]) EXCEPT !.text = ElementText(found[i])]], ElementCap)

\* _extract_dom_elements (196-242): `return elements[:100]`.
ExtractDomElements(nodes) == Take(ScanTags(nodes, Len(ImportantTags)), ElementCap)

\* _extract_forms (244-281).
ExtractForms(nodes) ==
    LET forms == FindAll(nodes, {"form"})
    IN [i \in 1..Len(forms) |-> FormElement(forms[i])]

\* The test of _extract_buttons (289): an <input> counts only with type
\* button or submit.
IsButton(n) ==
    ~(n.tag = "input" /\ n.type \notin {Some("button"), Some("submit")})

\* _extract_buttons (283-304): `return buttons[:20]`.
ExtractButtons(nodes) ==
    LET found == SelectSeq(FindAll(nodes, {"button", "input"}), IsButton)
    IN Take([i \in 1..Len(found) |->
               [DOMElement(found[i]) EXCEPT !.text = ButtonText(found[i])]], ButtonCap)

\* _extract_links (306-324): `soup.find_all('a', href=True)`, `return links[:30]`.
ExtractLinks(nodes) ==
    LET found == SelectSeq(FindAll(nodes, {"a"}), LAMBDA n : n.href # None)
    IN Take([i \in 1..Len(found) |->
               [DOMElement(found[i]) EXCEPT !.text = LinkText(found[i])]], LinkCap)

\* _extract_inputs (326-343).
ExtractInputs(nodes) ==
    LET found == FindAll(nodes, {"input", "textarea", "select"})
    IN [i \in 1..Len(found) |-> DOMElement(found[i])]

\* `clickable_selectors` (351-358), in query order.
ClickableSelectors ==
    <<"button", "a[href]", "input[type=button]", "input[type=submit]",
      "[onclick]", "[role=button]">>

\* Whether node n matches a clickable selector.
Matches(n, selector) ==
    CASE selector = "button" -> n.tag = "button"
      [] selector = "a[href]" -> n.tag = "a" /\ n.href # None
      [] selector = "input[type=button]" -> n.tag = "input" /\ n.type = Some("button")
      [] selector = "input[type=submit]" -> n.tag = "input" /\ n.type = Some("submit")
      [] selector = "[onclick]" -> n.onclick # None
      [] selector = "[role=button]" -> n.role = Some("button")

\* What one selector contributes (360-378): nothing when its query raises,
\* else one element for each of its first ten matches.
SelectorElements(nodes, selector, failed) ==
    IF selector \in failed THEN <<>>
    ELSE LET found == SelectSeq(nodes, LAMBDA n : Matches(n, selector))
         IN [i \in 1..Len(Take(found, PerSelectorCap)) |-> InteractiveElement(selector)]

RECURSIVE QuerySelectors(_, _, _)
QuerySelectors(nodes, k, failed) ==
    IF k = 0 THEN <<>>
    ELSE QuerySelectors(nodes, k - 1, failed)
         \o SelectorElements(nodes, ClickableSelectors[k], failed)

\* _extract_interactive_elements (345-383) when the queries of the selectors
\* in `failed` raise: `return interactive[:30]`.
ExtractInteractiveElements(nodes, failed) ==
    Take(QuerySelectors(nodes, Len(ClickableSelectors), failed), InteractiveCap)

---------------------------------------------------------------------------
\* The pages a request can be pointed at: what the rendered document yields
\* to each probe when the probe succeeds.

FormPage ==
    [title |-> "Sign up",
     png |-> "iVBORw0KGgo=",
     html |-> "<h1>Sign up</h1><form><input><button>Go</button></form><a href>",
     nodes |-> << Node("h1", None, None, None, None, None),
                  Node("form", None, None, Some(<<"p", "o", "s", "t">>), None, None),
                  Node("input", Some("text"), None, None, None, None),
                  Node("button", None, None, None, None, None),
                  Node("a", None, Some("/home"), None, None, None) >>,
     console |-> <<"log: ready">>,
     timing |-> [domContentLoaded |-> Some(3), firstContentfulPaint |-> Some(40)],
     images |-> <<>>,
     inputs |-> << [id |-> None, labelled |-> FALSE, aria |-> None] >>,
     headings |-> <<1>>,
     scrollWidth |-> 800,
     clickable |-> 2, focusable |-> 3, can_scroll |-> TRUE,
     nav_links |-> <<"Home">>]

BlankPage ==
    [title |-> "",
     png |-> "iVBORw0KGgp=",
     html |-> "<html></html>",
     nodes |-> <<>>,
     console |-> <<>>,
     timing |-> [domContentLoaded |-> Some(0), firstContentfulPaint |-> None],
     images |-> <<>>,
     inputs |-> <<>>,
     headings |-> <<>>,
     scrollWidth |-> 300,
     clickable |-> 0, focusable |-> 0, can_scroll |-> FALSE,
     nav_links |-> <<>>]

Sites == {FormPage, BlankPage}

---------------------------------------------------------------------------
\* FrontendCapture.capture_frontend (capture.py 81-161)

\* Largest wall-clock navigation duration measured (in seconds).
MaxLoadTime == 1

Flags == {"screenshot", "dom_analysis", "performance", "accessibility",
          "responsive", "console_logs"}

\* The options used when the argument is None (89-97).
DefaultOptions ==
    [screenshot |-> TRUE, dom_analysis |-> TRUE, performance |-> TRUE,
     accessibility |-> TRUE, responsive |-> FALSE, console_logs |-> TRUE]

\* dict.get(key, default)
Get(d, key, default) == IF key \in DOMAIN d THEN d[key] ELSE default

\* `options` after the `if options is None` block.
EffectiveOptions == IF options = None THEN DefaultOptions ELSE options[1]

\* A pipeline that analyses the DOM before taking the screenshot.
StageOrderSwapped == <<"dom_analysis", "screenshot", "performance", "accessibility",
                       "responsive", "interactions">>

\* The stages of the pipeline in the order of their statements (131-152).
StageOrder == <<"screenshot", "dom_analysis", "performance", "accessibility",
                "responsive", "interactions">>

\* A pipeline that runs every stage whatever the options say.
StageEnabledIgnoringOptions(s) == TRUE

\* The condition guarding each stage.
StageEnabled(s) ==
    CASE s = "screenshot" -> Get(EffectiveOptions, "screenshot", TRUE)
      [] s = "dom_analysis" -> Get(EffectiveOptions, "dom_analysis", TRUE)
      [] s = "performance" -> Get(EffectiveOptions, "performance", TRUE)
      [] s = "accessibility" -> Get(EffectiveOptions, "accessibility", TRUE)
      [] s = "responsive" -> Get(EffectiveOptions, "responsive", FALSE)
      [] s = "interactions" -> TRUE

\* The statement reached when falling through the stages after position k:
\* the first enabled stage, or the return.
StageAfter(k) ==
    LET later == { j \in (k + 1)..Len(StageOrder) : StageEnabled(StageOrder[j]) }
    IN IF later = {} THEN "return"
       ELSE StageOrder[CHOOSE j \in later : \A m \in later : j <= m]

\* Viewport of the shared context, inherited by every page (58).
ContextViewport == [width |-> 1280, height |-> 720]

\* Whether set_viewport_size accepts the dict.
ValidViewport(v) == {"width", "height"} \subseteq DOMAIN v

\* The viewports a request can ask for.
Viewports ==
    { None, Some([width |-> 375, height |-> 667]), Some([width |-> 375]) }

\* The option arguments a request can pass: None, the empty dict, or a dict
\* giving a value to every flag or to every flag but one.
OptionArgs ==
    {None, Some(EmptyDict)}
    \cup { Some(d) : d \in [Flags -> BOOLEAN] }
    \cup { Some(d) : d \in UNION { [Flags \ {m} -> BOOLEAN] : m \in Flags } }

\* Where an exception raised before the try block goes: out of the call.
BeforeTryRaise == "raised"

\* Where an exception raised inside the try block goes: `except` logs and
\* re-raises, through `finally`.
InTryRaise == "finally"

\* `page = await self.context.new_page()` (101), before the try.
CaptureNewPage ==
    /\ fn = "capture_frontend" /\ pc = "new_page"
    /\ \E out \in DriverOutcomes :
         /\ calls' = Append(calls, Call("new_page", 0, 0, out))
         /\ IF out = "ok"
            THEN /\ pages' = Append(pages, "open")
                 /\ page' = Len(pages) + 1
                 /\ viewport_size' = ContextViewport
                 /\ exc' = exc
                 /\ pc' = IF TruthyDict(viewport) THEN "set_viewport" ELSE "goto"
            ELSE /\ exc' = Some(DriverError("new_page"))
                 /\ pc' = "raised"
                 /\ UNCHANGED <<pages, page, viewport_size>>
    /\ UNCHANGED <<fn, interactVars, site, console_logs, options, viewport, load_time,
                   context, stages, response, requestVars, sessionVars>>

\* `if viewport: await page.set_viewport_size(viewport)` (104-105), before
\* the try.
CaptureSetViewport ==
    /\ fn = "capture_frontend" /\ pc = "set_viewport"
    /\ \E out \in DriverOutcomes :
         /\ ~ValidViewport(viewport[1]) => out = "raise"
         /\ calls' = Append(calls, Call("set_viewport_size", 0, 0, out))
         /\ IF out = "ok"
            THEN /\ viewport_size' = viewport[1]
                 /\ exc' = exc
                 /\ pc' = "goto"
            ELSE /\ viewport_size' = viewport_size
                 /\ exc' = Some(DriverError("set_viewport_size"))
                 /\ pc' = BeforeTryRaise
    /\ UNCHANGED <<fn, pages, page, interactVars, site, console_logs, options, viewport,
                   load_time, context, stages, response, requestVars, sessionVars>>

\* `await page.goto(url, wait_until="networkidle", timeout=30000)` with the
\* clock read around it (113-115); the listener attached at 109-110 appends
\* the console messages the page emits while it loads.
CaptureGoto ==
    /\ fn = "capture_frontend" /\ pc = "goto"
    /\ \E out \in DriverOutcomes :
         /\ calls' = Append(calls, Call("goto", 0, 0, out))
         /\ IF out = "ok"
            THEN /\ \E t \in 1..MaxLoadTime : load_time' = t
                 /\ console_logs' = console_logs \o site.console
                 /\ exc' = exc
                 /\ pc' = "title"
            ELSE /\ load_time' = load_time
                 /\ console_logs' = console_logs
                 /\ exc' = Some(DriverError("goto"))
                 /\ pc' = InTryRaise
    /\ UNCHANGED <<fn, pages, page, interactVars, site, options, viewport,
                   viewport_size, context, stages, response, requestVars, sessionVars>>

\* `title = await page.title()` and the construction of the context object
\* (118-129).
CaptureTitle ==
    /\ fn = "capture_frontend" /\ pc = "title"
    /\ \E out \in DriverOutcomes :
         /\ calls' = Append(calls, Call("title", 0, 0, out))
         /\ IF out = "ok"
            THEN /\ context' = Some(FrontendContext(site.title, viewport_size,
                                                     console_logs))
                 /\ exc' = exc
                 /\ pc' = StageAfter(0)
            ELSE /\ context' = context
                 /\ exc' = Some(DriverError("title"))
                 /\ pc' = InTryRaise
    /\ UNCHANGED <<fn, pages, page, interactVars, site, console_logs, options, viewport,
                   viewport_size, load_time, stages, response, requestVars, sessionVars>>

\* _capture_screenshot (163-173): the base64 text, or "" when the driver
\* call raises.
CaptureScreenshotResult(out) == IF out = "ok" THEN site.png ELSE ""

\* The selectors whose live query raises when the live queries end with
\* `live`.
FailedSelectors(live) ==
    IF live = "ok" THEN {}
    ELSE { ClickableSelectors[k] : k \in DOMAIN ClickableSelectors }

\* The assignments of _analyze_dom from the parsed markup (179-190).
AnalyzeDomMarkup(ctx) ==
    [ctx EXCEPT !.raw_html = Some(site.html),
                !.elements = ExtractDomElements(site.nodes),
                !.forms = ExtractForms(site.nodes),
                !.buttons = ExtractButtons(site.nodes),
                !.links = ExtractLinks(site.nodes),
                !.inputs = ExtractInputs(site.nodes)]

\* The assignment of _analyze_dom from the live queries (191).
AnalyzeDomLive(ctx, failed) ==
    [ctx EXCEPT !.interactive = ExtractInteractiveElements(site.nodes, failed)]

\* _analyze_dom (175-194): nothing is assigned when page.content() raises;
\* otherwise the static collections come from the parsed markup and the
\* interactive ones from live queries, those of the selectors in `failed`
\* raising and being skipped.
AnalyzeDom(ctx, out, failed) ==
    IF out = "raise" THEN ctx
    ELSE AnalyzeDomLive(AnalyzeDomMarkup(ctx), failed)

\* A fallback record that does not carry the measured load time.
AnalyzePerformanceNoLoadTime(lt, out) ==
    IF out = "ok"
    THEN PerformanceMetrics(lt, site.timing.firstContentfulPaint,
                            site.timing.domContentLoaded)
    ELSE PerformanceMetrics(0, None, None)

\* A fallback record that fills the timings it could not read with zeros.
AnalyzePerformanceZeroed(lt, out) ==
    IF out = "ok"
    THEN PerformanceMetrics(lt, site.timing.firstContentfulPaint,
                            site.timing.domContentLoaded)
    ELSE PerformanceMetrics(lt, Some(0), Some(0))

\* _analyze_performance (385-412).
AnalyzePerformance(lt, out) ==
    IF out = "ok"
    THEN PerformanceMetrics(lt, site.timing.firstContentfulPaint,
                            site.timing.domContentLoaded)
    ELSE PerformanceMetrics(lt, None, None)

\* An issue pushed by the in-page script (426-431, 443-448, 458-463).
Issue(type, severity, description, element) ==
    [type |-> type, severity |-> severity, description |-> description,
     element |-> element]

\* `${tag}:nth-child(${index + 1})` for the node at position k of its query.
NthChild(tag, k) == tag \o ":nth-child(" \o ToString(k) \o ")"

\* The locator of a form control (447): its tag, then `#id` when it has a
\* non-empty id and its position otherwise; the controls are <input> nodes.
InputLocator(input, k) ==
    IF TruthyStr(input.id) THEN "input#" \o input.id[1] ELSE NthChild("input", k)

\* The locator of a heading (462): its tag name in lower case.
HeadingLocator(level) == "h" \o ToString(level)

\* `!img.alt && !img.getAttribute('aria-label')` (425) for an image with the
\* Optional attributes alt and aria-label: img.alt is "" without the attribute.
ImageFlagged(img) == ~TruthyStr(img.alt) /\ ~TruthyStr(img.aria)

\* `!hasLabel && !hasAriaLabel` (438-442): hasLabel needs a non-empty id and a
\* label[for=id] in the document.
InputFlagged(input) ==
    ~(TruthyStr(input.id) /\ input.labelled) /\ ~TruthyStr(input.aria)

\* A heading loop whose running level starts at 1 instead of 0.
HeadingFlaggedFromOne(headings, k) ==
    headings[k] > (IF k = 1 THEN 1 ELSE headings[k - 1]) + 1

\* The heading loop (454-466) over the first k headings: lastLevel starts at
\* 0 and a heading is flagged when its level exceeds lastLevel + 1.
HeadingFlagged(headings, k) ==
    headings[k] > (IF k = 1 THEN 0 ELSE headings[k - 1]) + 1

\* A node of a query was flagged by its rule.
Flagged(c) == c.flagged

\* The issues pushed by one forEach loop: those of the flagged nodes, in the
\* order of the query.
Pushed(candidates) ==
    LET hit == SelectSeq(candidates, Flagged)
    IN [j \in 1..Len(hit) |-> hit[j].issue]

\* `issues` after the three rules (420-466): one issue for each flagged
\* image, then one for each flagged form control, then one for each flagged
\* heading, each loop in document order.
AuditIssues(doc) ==
    Pushed([k \in DOMAIN doc.images |->
              [flagged |-> ImageFlagged(doc.images[k]),
               issue |-> Issue("missing_alt_text", "medium",
                               "Image missing alternative text", NthChild("img", k))]])
    \o Pushed([k \in DOMAIN doc.inputs |->
                 [flagged |-> InputFlagged(doc.inputs[k]),
                  issue |-> Issue("missing_form_label", "high",
                                  "Form input missing label",
                                  InputLocator(doc.inputs[k], k))]])
    \o Pushed([k \in DOMAIN doc.headings |->
                 [flagged |-> HeadingFlagged(doc.headings, k),
                  issue |-> Issue("heading_hierarchy", "medium",
                                  "Improper heading hierarchy",
                                  HeadingLocator(doc.headings[k]))]])

\* A score that is not clamped at zero.
AccessibilityScoreUnclamped(issues) == 100 - Len(issues) * 10

\* `Math.max(0, 100 - (issues.length * 10))` (470).
AccessibilityScore(issues) ==
    IF 100 - Len(issues) * 10 > 0 THEN 100 - Len(issues) * 10 ELSE 0

\* An auditor whose fallback reports a clean page.
AnalyzeAccessibilityClean(out) ==
    IF out = "ok"
    THEN [issues |-> AuditIssues(site), score |-> AccessibilityScore(AuditIssues(site))]
    ELSE [issues |-> <<>>, score |-> 100]

\* _analyze_accessibility (414-479).
AnalyzeAccessibility(out) ==
    IF out = "ok"
    THEN [issues |-> AuditIssues(site), score |-> AccessibilityScore(AuditIssues(site))]
    ELSE [issues |-> <<>>, score |-> 0]

\* The breakpoints of the responsive sweep (486-490).
Breakpoints ==
    << [name |-> "mobile", width |-> 375, height |-> 667],
       [name |-> "tablet", width |-> 768, height |-> 1024],
       [name |-> "desktop", width |-> 1280, height |-> 720] >>

\* `scrollWidth > clientWidth` once the viewport has the breakpoint's width.
OverflowCheck(bp) == site.scrollWidth > bp.width

\* A record that never reports a horizontal scrollbar.
BreakpointRecordNoScroll(bp) ==
    [name |-> bp.name, width |-> bp.width, height |-> bp.height,
     has_horizontal_scroll |-> FALSE]

\* The record appended for a completed breakpoint (503-508).
BreakpointRecord(bp) ==
    [name |-> bp.name, width |-> bp.width, height |-> bp.height,
     has_horizontal_scroll |-> OverflowCheck(bp)]

\* The issue appended for an overflowing breakpoint (511-515).
OverflowIssue(bp) ==
    [breakpoint |-> bp.name, issue |-> "horizontal_overflow",
     description |-> "Page has horizontal overflow at " \o bp.name \o " viewport"]

RECURSIVE OverflowIssues(_)
OverflowIssues(k) ==
    IF k = 0 THEN <<>>
    ELSE IF OverflowCheck(Breakpoints[k])
         THEN Append(OverflowIssues(k - 1), OverflowIssue(Breakpoints[k]))
         ELSE OverflowIssues(k - 1)

\* _test_responsive (481-520) when k iterations of the sweep complete (the
\* next one, if any, raises).
TestResponsive(k) ==
    [breakpoints |-> [j \in 1..k |-> BreakpointRecord(Breakpoints[j])],
     issues |-> OverflowIssues(k)]

\* A sweep that puts the viewport it found back when it ends.
ViewportRestoredAfterSweep(k, resized, before) == before

\* The page viewport after a sweep of k completed iterations; `resized` says
\* whether the iteration that raised had already resized the page.
ViewportAfterSweep(k, resized, before) ==
    IF k < Len(Breakpoints) /\ resized
    THEN [width |-> Breakpoints[k + 1].width, height |-> Breakpoints[k + 1].height]
    ELSE IF k = 0 THEN before
    ELSE [width |-> Breakpoints[k].width, height |-> Breakpoints[k].height]

\* A summary that carries only the keys whose probes completed.
AnalyzeInteractionsProbed(ctx, k) ==
    IF k >= 4
    THEN [clickable_count |-> site.clickable, focusable_count |-> site.focusable,
          form_count |-> Len(ctx.forms), navigation_links |-> site.nav_links,
          can_scroll |-> site.can_scroll]
    ELSE [form_count |-> Len(ctx.forms)]

\* _analyze_interactions (522-563) when k of its four probes complete:
\* clickable count, focusable count, scroll heights, navigation links.
AnalyzeInteractions(ctx, k) ==
    [clickable_count |-> IF k >= 1 THEN site.clickable ELSE 0,
     focusable_count |-> IF k >= 2 THEN site.focusable ELSE 0,
     form_count |-> Len(ctx.forms),
     navigation_links |-> IF k >= 4 THEN site.nav_links ELSE <<>>,
     can_scroll |-> IF k >= 3 THEN site.can_scroll ELSE FALSE]

\* Number of probes of _analyze_interactions.
InteractionProbes == 4

\* Position of stage s in StageOrder.
StageIndex(s) == CHOOSE j \in 1..Len(StageOrder) : StageOrder[j] = s

\* A stage method that lets the error of its driver call reach the caller.
EscapesUncaught(s, out) == out = "raise"

\* Whether the error of a driver call inside stage s leaves the stage's
\* method: never, each method wraps its body in `try ... except Exception`
\* and returns (165-173, 177-194, 387-412, 416-479, 485-518, 532-561).
Escapes(s, out) == FALSE

\* The statement after stage s, whose driver calls ended with `out`.
AfterStage(s, out) ==
    IF Escapes(s, out) THEN InTryRaise ELSE StageAfter(StageIndex(s))

\* The exception in flight after stage s.
ExcAfterStage(s, out) ==
    IF Escapes(s, out) THEN Some(DriverError(s)) ELSE exc

\* How a stage that completed k of its n driver-call groups ended.
Ended(k, n) == IF k = n THEN "ok" ELSE "raise"

\* `context.screenshot = await self._capture_screenshot(page)` (132-133).
CaptureScreenshot ==
    /\ fn = "capture_frontend" /\ pc = "screenshot"
    /\ \E out \in DriverOutcomes :
         /\ calls' = Append(calls, Call("screenshot", StageIndex("screenshot"), 0, out))
         /\ context' = Some([context[1] EXCEPT
                               !.screenshot = Some(CaptureScreenshotResult(out))])
         /\ pc' = AfterStage("screenshot", out)
         /\ exc' = ExcAfterStage("screenshot", out)
    /\ stages' = Append(stages, "screenshot")
    /\ UNCHANGED <<fn, pages, page, interactVars, site, console_logs, options, viewport,
                   viewport_size, load_time, response, requestVars, sessionVars>>

\* `await self._analyze_dom(page, context)` (136-137).
CaptureDomAnalysis ==
    /\ fn = "capture_frontend" /\ pc = "dom_analysis"
    /\ \E out \in DriverOutcomes, live \in DriverOutcomes :
         /\ out = "raise" => live = "raise"
         /\ calls' = Append(calls, Call("content", StageIndex("dom_analysis"), 0, out))
         /\ context' = Some(AnalyzeDom(context[1], out, FailedSelectors(live)))
         /\ pc' = AfterStage("dom_analysis", out)
         /\ exc' = ExcAfterStage("dom_analysis", out)
    /\ stages' = Append(stages, "dom_analysis")
    /\ UNCHANGED <<fn, pages, page, interactVars, site, console_logs, options, viewport,
                   viewport_size, load_time, response, requestVars, sessionVars>>

\* `context.performance = await self._analyze_performance(page, load_time)`
\* (140-141).
CapturePerformance ==
    /\ fn = "capture_frontend" /\ pc = "performance"
    /\ \E out \in DriverOutcomes :
         /\ calls' = Append(calls, Call("evaluate", StageIndex("performance"), 0, out))
         /\ context' = Some([context[1] EXCEPT
                               !.performance = Some(AnalyzePerformance(load_time, out))])
         /\ pc' = AfterStage("performance", out)
         /\ exc' = ExcAfterStage("performance", out)
    /\ stages' = Append(stages, "performance")
    /\ UNCHANGED <<fn, pages, page, interactVars, site, console_logs, options, viewport,
                   viewport_size, load_time, response, requestVars, sessionVars>>

\* `context.accessibility = await self._analyze_accessibility(page)` (144-145).
CaptureAccessibility ==
    /\ fn = "capture_frontend" /\ pc = "accessibility"
    /\ \E out \in DriverOutcomes :
         /\ calls' = Append(calls, Call("evaluate", StageIndex("accessibility"), 0, out))
         /\ context' = Some([context[1] EXCEPT
                               !.accessibility = AnalyzeAccessibility(out)])
         /\ pc' = AfterStage("accessibility", out)
         /\ exc' = ExcAfterStage("accessibility", out)
    /\ stages' = Append(stages, "accessibility")
    /\ UNCHANGED <<fn, pages, page, interactVars, site, console_logs, options, viewport,
                   viewport_size, load_time, response, requestVars, sessionVars>>

\* `context.responsive = await self._test_responsive(page)` (148-149).
CaptureResponsive ==
    /\ fn = "capture_frontend" /\ pc = "responsive"
    /\ \E k \in 0..Len(Breakpoints), resized \in BOOLEAN :
         /\ k = Len(Breakpoints) => resized
         /\ calls' = Append(calls, Call("set_viewport_size", StageIndex("responsive"),
                                        0, Ended(k, Len(Breakpoints))))
         /\ context' = Some([context[1] EXCEPT !.responsive = TestResponsive(k)])
         /\ viewport_size' = ViewportAfterSweep(k, resized, viewport_size)
         /\ pc' = AfterStage("responsive", Ended(k, Len(Breakpoints)))
         /\ exc' = ExcAfterStage("responsive", Ended(k, Len(Breakpoints)))
    /\ stages' = Append(stages, "responsive")
    /\ UNCHANGED <<fn, pages, page, interactVars, site, console_logs, options, viewport,
                   load_time, response, requestVars, sessionVars>>

\* `await self._analyze_interactions(page, context)` (152).
CaptureInteractions ==
    /\ fn = "capture_frontend" /\ pc = "interactions"
    /\ \E k \in 0..InteractionProbes :
         /\ calls' = Append(calls, Call("query_selector_all", StageIndex("interactions"),
                                        0, Ended(k, InteractionProbes)))
         /\ context' = Some([context[1] EXCEPT
                               !.interactions = AnalyzeInteractions(context[1], k)])
         /\ pc' = AfterStage("interactions", Ended(k, InteractionProbes))
         /\ exc' = ExcAfterStage("interactions", Ended(k, InteractionProbes))
    /\ stages' = Append(stages, "interactions")
    /\ UNCHANGED <<fn, pages, page, interactVars, site, console_logs, options, viewport,
                   viewport_size, load_time, response, requestVars, sessionVars>>

\* `return context` (154-155): the value is kept while `finally` runs.
CaptureReturn ==
    /\ fn = "capture_frontend" /\ pc = "return"
    /\ pc' = "finally"
    /\ UNCHANGED <<fn, pages, page, exc, calls, interactVars, captureVars, response, requestVars, sessionVars>>

\* `finally: await page.close()` (160-161), after which the pending return
\* or exception takes effect; an error of close() replaces either.
CaptureFinally ==
    /\ fn = "capture_frontend" /\ pc = "finally"
    /\ \E out \in DriverOutcomes :
         /\ calls' = Append(calls, Call("close", 0, 0, out))
         /\ IF out = "ok"
            THEN /\ pages' = [pages EXCEPT ![page] = "closed"]
                 /\ exc' = exc
                 /\ pc' = IF exc = None THEN "returned" ELSE "raised"
            ELSE /\ \E left \in AfterFailedClose :
                      pages' = [pages EXCEPT ![page] = left]
                 /\ exc' = Some(DriverError("close"))
                 /\ pc' = "raised"
    /\ self_context' = ContextAfterPageClose(self_context)
    /\ UNCHANGED <<fn, page, interactVars, captureVars, response, requestVars,
                   capture_system, self_playwright, self_browser, connected>>

\* The /capture endpoint around the call (main.py 124-152): the context as
\* the 200 response, or any exception as a 500.
HttpResponse(status, detail, body) ==
    [status |-> status, detail |-> detail, body |-> body]

CaptureRespond ==
    /\ endpoint = "/capture"
    /\ fn = "capture_frontend" /\ pc \in {"returned", "raised"}
    /\ response = None
    /\ response' = IF pc = "returned"
                   THEN Some(HttpResponse(200, None, context))
                   ELSE Some(HttpResponse(500, Some("Capture failed: " \o exc[1]), None))
    /\ UNCHANGED <<fn, pc, pages, page, exc, calls, interactVars, captureVars,
                   requestVars, sessionVars>>

InitCapture ==
    /\ fn = "capture_frontend"
    /\ pc = "new_page"
    /\ pages = <<>>
    /\ page = 0
    /\ exc = None
    /\ calls = <<>>
    /\ actions = <<>>
    /\ idx = 1
    /\ results = <<>>
    /\ site \in Sites
    /\ options \in OptionArgs
    /\ viewport \in Viewports
    /\ viewport_size = None
    /\ load_time = 0
    /\ context = None
    /\ stages = <<>>
    /\ response = None
    /\ console_logs = <<>>
    /\ endpoint = "/capture"
    /\ capture_after = FALSE
    /\ request = 1
    /\ frames = <<>>
    /\ capture_system = TRUE
    /\ self_playwright = "open"
    /\ self_browser = "open"
    /\ self_context = "open"
    /\ connected = TRUE

NextCapture ==
    \/ CaptureNewPage
    \/ CaptureSetViewport
    \/ CaptureGoto
    \/ CaptureTitle
    \/ CaptureScreenshot
    \/ CaptureDomAnalysis
    \/ CapturePerformance
    \/ CaptureAccessibility
    \/ CaptureResponsive
    \/ CaptureInteractions
    \/ CaptureReturn
    \/ CaptureFinally
    \/ CaptureRespond

SpecCapture == InitCapture /\ [][NextCapture]_vars

\* The coroutine is always resumed: every awaited driver call ends, by
\* returning or by raising.
FairSpecCapture == SpecCapture /\ WF_vars(NextCapture)

---------------------------------------------------------------------------
\* FrontendCapture._analyze_dom (capture.py 175-194) on its own, applied to
\* documents large enough to reach the caps of the extractors.

\* How far the number of equal nodes in a document goes beyond a cap.
MaxOver == 1

\* The run lengths of equal nodes: none, one, and each cap up to MaxOver
\* beyond it.
Lengths ==
    {0, 1} \cup { c + d : c \in {PerSelectorCap, ButtonCap, LinkCap, ElementCap},
                          d \in 0..MaxOver }

\* The values of a form's method attribute: absent, empty, and lower-case,
\* mixed-case and upper-case spellings, with a character that is no letter.
MethodValues ==
    { None, Some(<<>>),
      Some(<<"p", "o", "s", "t">>), Some(<<"P", "o", "s", "t">>),
      Some(<<"G", "E", "T">>), Some(<<"g", "e", "t">>),
      Some(<<"d", "i", "a", "l", "o", "g">>), Some(<<"p", "u", "t", "-", "1">>) }

\* Nodes that are no forms: plain, and matching one to three clickable
\* selectors.
NodeAlphabet ==
    { Node("div", None, None, None, None, None),
      Node("button", None, None, None, Some("go()"), Some("button")),
      Node("a", None, Some("/home"), None, None, None),
      Node("a", None, None, None, None, None),
      Node("input", Some("submit"), None, None, Some("go()"), None),
      Node("input", Some("text"), None, None, None, None),
      Node("input", Some("button"), None, None, None, Some("button")) }

FormNodes == { Node("form", None, None, m, None, None) : m \in MethodValues }

\* Most characters of a node's text beyond the slice bound.
MaxTextOver == 1

\* The texts of a node: none, one character, and the slice bound up to
\* MaxTextOver beyond it.
Texts == { Repeat("x", k) : k \in {0, 1} \cup { TextCap + d : d \in 0..MaxTextOver } }

\* Nodes with text: a heading, a paragraph, a button and a link.
TextNodes ==
    { WithText(n, t) :
        n \in { Node("h1", None, None, None, None, None),
                Node("p", None, None, None, None, None),
                Node("button", None, None, None, None, None),
                Node("a", None, Some("/home"), None, None, None) },
        t \in Texts }

\* The documents: two runs of equal nodes, up to two forms, or up to two
\* nodes with text.
Documents ==
    { Repeat(a, n) \o Repeat(b, m) : a, b \in NodeAlphabet, n, m \in Lengths }
    \cup SeqUpTo(FormNodes, 2)
    \cup SeqUpTo(TextNodes, 2)

\* The page serving a document.
DocumentPage(nodes) == [html |-> "<html>", nodes |-> nodes]

\* `html_content = await page.content()` and the extraction from the parsed
\* markup (179-190); when content() raises the method logs and returns.
AnalyzeDomContent ==
    /\ fn = "_analyze_dom" /\ pc = "content"
    /\ \E out \in DriverOutcomes :
         /\ calls' = Append(calls, Call("content", 0, 0, out))
         /\ IF out = "ok"
            THEN /\ context' = Some(AnalyzeDomMarkup(context[1]))
                 /\ pc' = "interactive"
            ELSE /\ context' = Some(AnalyzeDom(context[1], out, {}))
                 /\ pc' = "returned"
    /\ UNCHANGED <<fn, pages, page, exc, interactVars, site, console_logs, options,
                   viewport, viewport_size, load_time, stages, response,
                   requestVars, sessionVars>>

\* `context.interactive = await self._extract_interactive_elements(page)`
\* (191): the live query of each clickable selector returns or raises.
AnalyzeDomInteractive ==
    /\ fn = "_analyze_dom" /\ pc = "interactive"
    /\ \E failed \in SUBSET { ClickableSelectors[k] : k \in DOMAIN ClickableSelectors } :
         /\ calls' = Append(calls, Call("query_selector_all", 0, 0,
                                        IF failed = {} THEN "ok" ELSE "raise"))
         /\ context' = Some(AnalyzeDomLive(context[1], failed))
    /\ pc' = "returned"
    /\ UNCHANGED <<fn, pages, page, exc, interactVars, site, console_logs, options,
                   viewport, viewport_size, load_time, stages, response,
                   requestVars, sessionVars>>

InitExtract ==
    /\ fn = "_analyze_dom"
    /\ pc = "content"
    /\ pages = <<"open">>
    /\ page = 1
    /\ exc = None
    /\ calls = <<>>
    /\ actions = <<>>
    /\ idx = 1
    /\ results = <<>>
    /\ site \in { DocumentPage(d) : d \in Documents }
    /\ options = None
    /\ viewport = None
    /\ viewport_size = ContextViewport
    /\ load_time = 0
    /\ context = Some(FrontendContext("", ContextViewport, <<>>))
    /\ stages = <<>>
    /\ console_logs = <<>>
    /\ response = None
    /\ endpoint = ""
    /\ capture_after = FALSE
    /\ request = 1
    /\ frames = <<>>
    /\ capture_system = TRUE
    /\ self_playwright = "open"
    /\ self_browser = "open"
    /\ self_context = "open"
    /\ connected = TRUE

NextExtract ==
    \/ AnalyzeDomContent
    \/ AnalyzeDomInteractive

SpecExtract == InitExtract /\ [][NextExtract]_vars

---------------------------------------------------------------------------
\* FrontendCapture._analyze_accessibility (capture.py 414-479) on its own,
\* applied to documents with up to a dozen issues.

\* Most images and most form controls in a document.
MaxAuditNodes == 5

\* Most headings in a document.
MaxHeadings == 2

\* Images by their alt and aria-label attributes.
ImageKinds ==
    { [alt |-> None, aria |-> None], [alt |-> Some(""), aria |-> None],
      [alt |-> Some("logo"), aria |-> None], [alt |-> None, aria |-> Some("logo")] }

\* Form controls by their id, whether a label points to it, and aria-label.
InputKinds ==
    { [id |-> None, labelled |-> FALSE, aria |-> None],
      [id |-> Some("name"), labelled |-> TRUE, aria |-> None],
      [id |-> Some("name"), labelled |-> FALSE, aria |-> None],
      [id |-> None, labelled |-> FALSE, aria |-> Some("name")] }

\* The heading levels used.
HeadingLevels == {1, 2, 4}

\* The documents audited: a run of equal images, a run of equal form
\* controls and a sequence of headings.
AuditDocuments ==
    { [images |-> Repeat(img, n), inputs |-> Repeat(input, m), headings |-> h] :
        img \in ImageKinds, n \in 0..MaxAuditNodes,
        input \in InputKinds, m \in 0..MaxAuditNodes,
        h \in SeqUpTo(HeadingLevels, MaxHeadings) }

\* `context.accessibility = await self._analyze_accessibility(page)` from
\* call to return: the in-page script returns its result, or evaluate raises.
AuditEvaluate ==
    /\ fn = "_analyze_accessibility" /\ pc = "evaluate"
    /\ \E out \in DriverOutcomes :
         /\ calls' = Append(calls, Call("evaluate", 0, 0, out))
         /\ context' = Some([context[1] EXCEPT
                               !.accessibility = AnalyzeAccessibility(out)])
    /\ pc' = "returned"
    /\ UNCHANGED <<fn, pages, page, exc, interactVars, site, console_logs, options,
                   viewport, viewport_size, load_time, stages, response,
                   requestVars, sessionVars>>

InitAudit ==
    /\ fn = "_analyze_accessibility"
    /\ pc = "evaluate"
    /\ pages = <<"open">>
    /\ page = 1
    /\ exc = None
    /\ calls = <<>>
    /\ actions = <<>>
    /\ idx = 1
    /\ results = <<>>
    /\ site \in AuditDocuments
    /\ options = None
    /\ viewport = None
    /\ viewport_size = ContextViewport
    /\ load_time = 0
    /\ context = Some(FrontendContext("", ContextViewport, <<>>))
    /\ stages = <<>>
    /\ console_logs = <<>>
    /\ response = None
    /\ endpoint = ""
    /\ capture_after = FALSE
    /\ request = 1
    /\ frames = <<>>
    /\ capture_system = TRUE
    /\ self_playwright = "open"
    /\ self_browser = "open"
    /\ self_context = "open"
    /\ connected = TRUE

NextAudit == AuditEvaluate

SpecAudit == InitAudit /\ [][NextAudit]_vars

---------------------------------------------------------------------------
\* POST /interact (main.py 155-202): interact_with_page, then, when
\* request.capture_after is set, capture_frontend on the same url.

\* Longest action list of an /interact request.
MaxRequestActions == 1

\* The options of the follow-up capture (180-187).
CaptureAfterOptions ==
    [screenshot |-> TRUE, dom_analysis |-> TRUE, performance |-> FALSE,
     accessibility |-> FALSE, responsive |-> FALSE, console_logs |-> TRUE]

\* The response body built at 190-195.
InteractBody(updated) ==
    [success |-> TRUE, interactions_performed |-> Len(results),
     results |-> results, updated_context |-> updated]

\* `if request.capture_after: updated_context = await
\* capture_system.capture_frontend(url, options={...})` (177-188): the call
\* starts once interact_with_page has returned; no viewport is passed.
InteractCaptureAfter ==
    /\ endpoint = "/interact"
    /\ fn = "interact_with_page" /\ pc = "returned"
    /\ capture_after
    /\ fn' = "capture_frontend"
    /\ pc' = "new_page"
    /\ page' = 0
    /\ options' = Some(CaptureAfterOptions)
    /\ viewport' = None
    /\ UNCHANGED <<pages, exc, calls, interactVars, site, console_logs, viewport_size,
                   load_time, context, stages, response, requestVars, sessionVars>>

\* The answer of the endpoint: the body with success = True once the calls
\* it makes have returned (190-198), or 500 for an exception of either call
\* (200-202).
InteractRespond ==
    /\ endpoint = "/interact"
    /\ response = None
    /\ pc \in {"returned", "raised"}
    /\ (fn = "interact_with_page" /\ pc = "returned") => ~capture_after
    /\ response' =
         IF pc = "raised"
         THEN Some(HttpResponse(500, Some("Interaction failed: " \o exc[1]), None))
         ELSE Some(HttpResponse(200, None,
                   InteractBody(IF fn = "capture_frontend" THEN context ELSE None)))
    /\ UNCHANGED <<fn, pc, pages, page, exc, calls, interactVars, captureVars,
                   requestVars, sessionVars>>

InitInteractRequest ==
    /\ fn = "interact_with_page"
    /\ pc = "new_page"
    /\ pages = <<>>
    /\ page = 0
    /\ exc = None
    /\ calls = <<>>
    /\ actions \in SeqUpTo(ActionAlphabet, MaxRequestActions)
    /\ idx = 1
    /\ results = <<>>
    /\ site \in Sites
    /\ options = None
    /\ viewport = None
    /\ viewport_size = None
    /\ load_time = 0
    /\ context = None
    /\ stages = <<>>
    /\ console_logs = <<>>
    /\ response = None
    /\ endpoint = "/interact"
    /\ capture_after \in BOOLEAN
    /\ request = 1
    /\ frames = <<>>
    /\ capture_system = TRUE
    /\ self_playwright = "open"
    /\ self_browser = "open"
    /\ self_context = "open"
    /\ connected = TRUE

\* The follow-up capture passes no viewport and switches performance,
\* accessibility and responsive off, so the statements guarded by them are
\* never reached.
NextInteractRequest ==
    \/ InteractNewPage
    \/ InteractGoto
    \/ InteractAction
    \/ InteractDelay
    \/ InteractFinally
    \/ InteractCaptureAfter
    \/ CaptureNewPage
    \/ CaptureGoto
    \/ CaptureTitle
    \/ CaptureScreenshot
    \/ CaptureDomAnalysis
    \/ CaptureInteractions
    \/ CaptureReturn
    \/ CaptureFinally
    \/ InteractRespond

SpecInteractRequest == InitInteractRequest /\ [][NextInteractRequest]_vars

---------------------------------------------------------------------------
\* The session: startup_event and shutdown_event (main.py 54-77),
\* FrontendCapture.initialize and cleanup (capture.py 37-79), and the health
\* check (main.py 108-121, capture.py 630-636).

\* Most health checks answered while the service runs.
MaxHealthChecks == 3

\* The handles of the session in the order cleanup() closes them, with the
\* driver call that closes each.
CleanupOrder == <<"context", "browser", "playwright">>

CloseOp(h) ==
    CASE h = "context" -> "context.close"
      [] h = "browser" -> "browser.close"
      [] h = "playwright" -> "playwright.stop"

\* The handle named h: "none" while the attribute is None.
Handle(h) ==
    CASE h = "context" -> self_context
      [] h = "browser" -> self_browser
      [] h = "playwright" -> self_playwright

\* A cleanup() that lets the error of a close reach its caller.
AfterCleanupRaisePropagates == "raised"

\* Where cleanup() goes when a close raises: the except clause of its single
\* try block logs the error and the method returns (78-79).
AfterCleanupRaise == "returned"

\* A server that goes on to serve requests after its startup hook raised.
AfterStartupRaiseServing == "serving"

\* Where the service goes when initialize() raises: initialize and
\* startup_event log and re-raise (capture.py 64-66, main.py 65-67), and the
\* server started at main.py 399-406 gives up on a startup hook that raises:
\* it never starts to accept requests.
AfterStartupRaise == "raised"

\* `capture_system = FrontendCapture()` (61): the global is assigned before
\* initialize() is awaited.
StartupCreate ==
    /\ fn = "startup_event" /\ pc = "create"
    /\ capture_system' = TRUE
    /\ pc' = "start"
    /\ UNCHANGED <<fn, pages, page, exc, calls, interactVars, captureVars, response,
                   requestVars, self_playwright, self_browser, self_context, connected>>

\* `self.playwright = await async_playwright().start()` (40); an error is
\* logged and re-raised by initialize (64-66) and by startup_event (65-67).
InitializeStart ==
    /\ fn = "startup_event" /\ pc = "start"
    /\ \E out \in DriverOutcomes :
         /\ calls' = Append(calls, Call("playwright.start", 0, 0, out))
         /\ IF out = "ok"
            THEN self_playwright' = "open" /\ exc' = exc /\ pc' = "launch"
            ELSE /\ self_playwright' = self_playwright
                 /\ exc' = Some(DriverError("playwright.start"))
                 /\ pc' = AfterStartupRaise
    /\ UNCHANGED <<fn, pages, page, interactVars, captureVars, response, requestVars,
                   capture_system, self_browser, self_context, connected>>

\* `self.browser = await self.playwright.chromium.launch(...)` (43-54).
InitializeLaunch ==
    /\ fn = "startup_event" /\ pc = "launch"
    /\ \E out \in DriverOutcomes :
         /\ calls' = Append(calls, Call("browser.launch", 0, 0, out))
         /\ IF out = "ok"
            THEN /\ self_browser' = "open" /\ connected' = TRUE
                 /\ exc' = exc /\ pc' = "new_context"
            ELSE /\ self_browser' = self_browser /\ connected' = connected
                 /\ exc' = Some(DriverError("browser.launch"))
                 /\ pc' = AfterStartupRaise
    /\ UNCHANGED <<fn, pages, page, interactVars, captureVars, response, requestVars,
                   capture_system, self_playwright, self_context>>

\* `self.context = await self.browser.new_context(...)` (57-60), after which
\* the service accepts requests.
InitializeNewContext ==
    /\ fn = "startup_event" /\ pc = "new_context"
    /\ \E out \in DriverOutcomes :
         /\ calls' = Append(calls, Call("browser.new_context", 0, 0, out))
         /\ IF out = "ok"
            THEN self_context' = "open" /\ exc' = exc /\ pc' = "serving"
            ELSE /\ self_context' = self_context
                 /\ exc' = Some(DriverError("browser.new_context"))
                 /\ pc' = AfterStartupRaise
    /\ UNCHANGED <<fn, pages, page, interactVars, captureVars, response, requestVars,
                   capture_system, self_playwright, self_browser, connected>>

\* The browser process dies or its connection drops.
BrowserDisconnect ==
    /\ pc = "serving"
    /\ self_browser = "open" /\ connected
    /\ connected' = FALSE
    /\ UNCHANGED <<fn, pc, pages, page, exc, calls, interactVars, captureVars, response,
                   requestVars, capture_system, self_playwright, self_browser,
                   self_context>>

\* A health status that looks at the handle only, not at its connection.
BrowserReadyHandleOnly == self_browser # "none"

\* get_health_status (630-636): `self.browser is not None and
\* self.browser.is_connected()`.
BrowserReady == self_browser # "none" /\ connected

\* GET /health (108-121).
HealthCheck ==
    /\ pc = "serving"
    /\ Cardinality({ k \in DOMAIN calls : calls[k].op = "is_connected" }) < MaxHealthChecks
    /\ calls' = Append(calls, Call("is_connected", 0, 0, "ok"))
    /\ response' =
         IF ~capture_system
         THEN Some(HttpResponse(503, Some("Capture system not initialized"), None))
         ELSE Some(HttpResponse(200, None,
                   [status |-> IF BrowserReady THEN "healthy" ELSE "degraded",
                    browser_ready |-> BrowserReady]))
    /\ UNCHANGED <<fn, pc, pages, page, exc, interactVars, captureVars, requestVars,
                   sessionVars>>

\* cleanup() is called: by shutdown_event when capture_system is set (75-76),
\* or by the owner of a session whose initialize() raised.
CleanupCall ==
    /\ fn = "startup_event" /\ pc \in {"serving", "raised"}
    /\ capture_system
    /\ fn' = "cleanup"
    /\ pc' = "context"
    /\ exc' = None
    /\ UNCHANGED <<pages, page, calls, interactVars, captureVars, response, requestVars,
                   sessionVars>>

\* The statement of cleanup() after the one for the handle at position k of
\* CleanupOrder.
CleanupAfter(k) == IF k < Len(CleanupOrder) THEN CleanupOrder[k + 1] ELSE "returned"

\* The handles after the close of handle h left it in state `left`.
HandlesAfterClose(h, left) ==
    [context |-> IF h = "context" THEN left ELSE self_context,
     browser |-> IF h = "browser" THEN left ELSE self_browser,
     playwright |-> IF h = "playwright" THEN left ELSE self_playwright]

\* `if self.context: await self.context.close()` (71-72): skipped when the handle is
\* None; an error leaves the try block.
CleanupContext ==
    /\ fn = "cleanup" /\ pc = "context"
    /\ IF Handle("context") = "none"
       THEN /\ pc' = CleanupAfter(1)
            /\ UNCHANGED <<calls, self_context, connected>>
       ELSE \E out \in DriverOutcomes, left \in AfterFailedClose :
              /\ out = "ok" => left = "closed"
              /\ calls' = Append(calls, Call(CloseOp("context"), 0, 0, out))
              /\ self_context' = HandlesAfterClose("context", left).context
              /\ connected' = connected
              /\ pc' = IF out = "ok" THEN CleanupAfter(1) ELSE AfterCleanupRaise
    /\ UNCHANGED <<fn, pages, page, exc, interactVars, captureVars, response,
                   requestVars, capture_system, self_playwright, self_browser>>

\* `if self.browser: await self.browser.close()` (73-74): skipped when the handle is
\* None; an error leaves the try block.
CleanupBrowser ==
    /\ fn = "cleanup" /\ pc = "browser"
    /\ IF Handle("browser") = "none"
       THEN /\ pc' = CleanupAfter(2)
            /\ UNCHANGED <<calls, self_browser, connected>>
       ELSE \E out \in DriverOutcomes, left \in AfterFailedClose :
              /\ out = "ok" => left = "closed"
              /\ calls' = Append(calls, Call(CloseOp("browser"), 0, 0, out))
              /\ self_browser' = HandlesAfterClose("browser", left).browser
              /\ connected' = (connected /\ left = "open")
              /\ pc' = IF out = "ok" THEN CleanupAfter(2) ELSE AfterCleanupRaise
    /\ UNCHANGED <<fn, pages, page, exc, interactVars, captureVars, response,
                   requestVars, capture_system, self_playwright, self_context>>

\* `if self.playwright: await self.playwright.stop()` (75-76): skipped when the handle is
\* None; an error leaves the try block.
CleanupPlaywright ==
    /\ fn = "cleanup" /\ pc = "playwright"
    /\ IF Handle("playwright") = "none"
       THEN /\ pc' = CleanupAfter(3)
            /\ UNCHANGED <<calls, self_playwright, connected>>
       ELSE \E out \in DriverOutcomes, left \in AfterFailedClose :
              /\ out = "ok" => left = "closed"
              /\ calls' = Append(calls, Call(CloseOp("playwright"), 0, 0, out))
              /\ self_playwright' = HandlesAfterClose("playwright", left).playwright
              /\ connected' = connected
              /\ pc' = IF out = "ok" THEN CleanupAfter(3) ELSE AfterCleanupRaise
    /\ UNCHANGED <<fn, pages, page, exc, interactVars, captureVars, response,
                   requestVars, capture_system, self_browser, self_context>>

InitSession ==
    /\ fn = "startup_event"
    /\ pc = "create"
    /\ pages = <<>>
    /\ page = 0
    /\ exc = None
    /\ calls = <<>>
    /\ actions = <<>>
    /\ idx = 1
    /\ results = <<>>
    /\ site = None
    /\ options = None
    /\ viewport = None
    /\ viewport_size = None
    /\ load_time = 0
    /\ context = None
    /\ stages = <<>>
    /\ console_logs = <<>>
    /\ response = None
    /\ endpoint = "/health"
    /\ capture_after = FALSE
    /\ request = 1
    /\ frames = <<>>
    /\ capture_system = FALSE
    /\ self_playwright = "none"
    /\ self_browser = "none"
    /\ self_context = "none"
    /\ connected = FALSE

NextSession ==
    \/ StartupCreate
    \/ InitializeStart
    \/ InitializeLaunch
    \/ InitializeNewContext
    \/ BrowserDisconnect
    \/ HealthCheck
    \/ CleanupCall
    \/ CleanupContext
    \/ CleanupBrowser
    \/ CleanupPlaywright

SpecSession == InitSession /\ [][NextSession]_vars

---------------------------------------------------------------------------
\* The service from startup to shutdown: the server runs startup_event,
\* then answers POST /capture and POST /interact one request after the other
\* (main.py 124-202), and runs shutdown_event at the end.

\* Most requests answered while the service runs.
MaxServed == 1

\* The methods of FrontendCapture a request executes.
RequestFns == {"capture_frontend", "interact_with_page"}

\* The option argument of the capture requests of the service: every stage
\* but the interaction summary off, so the statements guarded by the flags
\* are never reached.
ServedOptions == { Some([f \in Flags |-> FALSE]) }

\* The action lists of the interact requests of the service.
ServedActions ==
    { <<>>, <<InteractionAction("click", Some("#btn"), None, None, None, None)>> }

\* POST /capture (main.py 124-147): 503 without a capture system (132-133),
\* else `await capture_system.capture_frontend(url, options, viewport)`.
ServeCapture ==
    /\ fn = "startup_event" /\ pc = "serving"
    /\ request < MaxServed
    /\ request' = request + 1
    /\ endpoint' = "/capture"
    /\ IF ~capture_system
       THEN /\ response' = Some(HttpResponse(503, Some("Capture system not initialized"),
                                             None))
            /\ UNCHANGED <<fn, pc, captureVars>>
       ELSE /\ response' = None
            /\ fn' = "capture_frontend"
            /\ pc' = "new_page"
            /\ site' \in Sites
            /\ options' \in ServedOptions
            /\ viewport' \in Viewports
            /\ UNCHANGED <<viewport_size, load_time, context, stages, console_logs>>
    /\ UNCHANGED <<pages, page, exc, calls, interactVars, capture_after, frames,
                   sessionVars>>

\* POST /interact (main.py 155-175): 503 without a capture system (161-162),
\* else `await capture_system.interact_with_page(url, actions)`.
ServeInteract ==
    /\ fn = "startup_event" /\ pc = "serving"
    /\ request < MaxServed
    /\ request' = request + 1
    /\ endpoint' = "/interact"
    /\ IF ~capture_system
       THEN /\ response' = Some(HttpResponse(503, Some("Capture system not initialized"),
                                             None))
            /\ UNCHANGED <<fn, pc, actions, capture_after, site>>
       ELSE /\ response' = None
            /\ fn' = "interact_with_page"
            /\ pc' = "new_page"
            /\ actions' \in ServedActions
            /\ capture_after' \in BOOLEAN
            /\ site' \in Sites
    /\ UNCHANGED <<pages, page, exc, calls, idx, results, options, viewport,
                   viewport_size, load_time, context, stages, console_logs, frames,
                   sessionVars>>

\* The endpoint function returns (147, 198) or raises its HTTPException
\* (152, 202): its locals are gone and the server waits for the next request.
EndpointReturn ==
    /\ fn \in RequestFns
    /\ response # None
    /\ fn' = "startup_event"
    /\ pc' = "serving"
    /\ page' = 0
    /\ exc' = None
    /\ actions' = <<>>
    /\ idx' = 1
    /\ results' = <<>>
    /\ site' = None
    /\ options' = None
    /\ viewport' = None
    /\ viewport_size' = None
    /\ load_time' = 0
    /\ context' = None
    /\ stages' = <<>>
    /\ console_logs' = <<>>
    /\ capture_after' = FALSE
    /\ UNCHANGED <<pages, calls, response, endpoint, request, frames, sessionVars>>

InitService ==
    /\ fn = "startup_event"
    /\ pc = "create"
    /\ pages = <<>>
    /\ page = 0
    /\ exc = None
    /\ calls = <<>>
    /\ actions = <<>>
    /\ idx = 1
    /\ results = <<>>
    /\ site = None
    /\ options = None
    /\ viewport = None
    /\ viewport_size = None
    /\ load_time = 0
    /\ context = None
    /\ stages = <<>>
    /\ console_logs = <<>>
    /\ response = None
    /\ endpoint = ""
    /\ capture_after = FALSE
    /\ request = 0
    /\ frames = <<>>
    /\ capture_system = FALSE
    /\ self_playwright = "none"
    /\ self_browser = "none"
    /\ self_context = "none"
    /\ connected = FALSE

NextService ==
    \/ StartupCreate
    \/ InitializeStart
    \/ InitializeLaunch
    \/ InitializeNewContext
    \/ ServeCapture
    \/ CaptureNewPage
    \/ CaptureSetViewport
    \/ CaptureGoto
    \/ CaptureTitle
    \/ CaptureInteractions
    \/ CaptureReturn
    \/ CaptureFinally
    \/ CaptureRespond
    \/ ServeInteract
    \/ InteractNewPage
    \/ InteractGoto
    \/ InteractAction
    \/ InteractDelay
    \/ InteractFinally
    \/ InteractCaptureAfter
    \/ InteractRespond
    \/ EndpointReturn
    \/ BrowserDisconnect
    \/ CleanupCall
    \/ CleanupContext
    \/ CleanupBrowser
    \/ CleanupPlaywright

SpecService == InitService /\ [][NextService]_vars

---------------------------------------------------------------------------
\* Concurrent requests: the handlers are coroutines on one event loop, so a
\* request runs until it awaits a driver call and any other request may be
\* resumed when a call completes.  All of them work on the one FrontendCapture
\* and its shared context (capture.py 101, 568).

\* Two requests are in flight at the same time: request 1 and the requests
\* of Others.
Others == {2}

\* Most times the event loop turns from one request's calls to another's.
MaxSwitches == 3

\* The frame of the running coroutine: the method, its position and its
\* locals.
Frame ==
    [fn |-> fn, pc |-> pc, page |-> page, exc |-> exc,
     actions |-> actions, idx |-> idx, results |-> results,
     site |-> site, options |-> options, viewport |-> viewport,
     viewport_size |-> viewport_size, load_time |-> load_time,
     context |-> context, stages |-> stages, console_logs |-> console_logs]

\* The frame of capture_frontend(url, options, viewport) at its first
\* statement, the page at `url` serving s.
CaptureCall(s, o, v) ==
    [fn |-> "capture_frontend", pc |-> "new_page", page |-> 0, exc |-> None,
     actions |-> <<>>, idx |-> 1, results |-> <<>>,
     site |-> s, options |-> o, viewport |-> v,
     viewport_size |-> None, load_time |-> 0,
     context |-> None, stages |-> <<>>, console_logs |-> <<>>]

\* The frame of interact_with_page(url, actions) at its first statement.
InteractCall(a) ==
    [fn |-> "interact_with_page", pc |-> "new_page", page |-> 0, exc |-> None,
     actions |-> a, idx |-> 1, results |-> <<>>,
     site |-> None, options |-> None, viewport |-> None,
     viewport_size |-> None, load_time |-> 0,
     context |-> None, stages |-> <<>>, console_logs |-> <<>>]

\* The calls the concurrent requests make.
ConcurrentCalls ==
    { CaptureCall(BlankPage, o, v) : o \in ServedOptions, v \in Viewports }
    \cup { InteractCall(a) : a \in ServedActions }

\* The log changes hands: the positions after which the next call was awaited
\* by another request.
Switches == { k \in 1..(Len(calls) - 1) : calls[k].by # calls[k + 1].by }

\* A `page` kept in one place for all requests instead of in the frame of
\* each coroutine.
ResumedPageShared(r) == page

\* The local `page` of request r when its coroutine is resumed.
ResumedPage(r) == frames[r].page

\* The event loop suspends the running coroutine at its await and resumes
\* request r with the frame it was suspended with.
Resume ==
    \E r \in DOMAIN frames :
        /\ frames[r].pc \notin {"returned", "raised"}
        /\ pc \in {"returned", "raised"} \/ Cardinality(Switches) < MaxSwitches
        /\ frames' = [q \in (DOMAIN frames \ {r}) \cup {request} |->
                         IF q = request THEN Frame ELSE frames[q]]
        /\ request' = r
        /\ fn' = frames[r].fn
        /\ pc' = frames[r].pc
        /\ page' = ResumedPage(r)
        /\ exc' = frames[r].exc
        /\ actions' = frames[r].actions
        /\ idx' = frames[r].idx
        /\ results' = frames[r].results
        /\ site' = frames[r].site
        /\ options' = frames[r].options
        /\ viewport' = frames[r].viewport
        /\ viewport_size' = frames[r].viewport_size
        /\ load_time' = frames[r].load_time
        /\ context' = frames[r].context
        /\ stages' = frames[r].stages
        /\ console_logs' = frames[r].console_logs
        /\ UNCHANGED <<pages, calls, response, endpoint, capture_after, sessionVars>>

InitConcurrent ==
    /\ \E first \in ConcurrentCalls :
         /\ fn = first.fn
         /\ pc = first.pc
         /\ page = first.page
         /\ exc = first.exc
         /\ actions = first.actions
         /\ idx = first.idx
         /\ results = first.results
         /\ site = first.site
         /\ options = first.options
         /\ viewport = first.viewport
         /\ viewport_size = first.viewport_size
         /\ load_time = first.load_time
         /\ context = first.context
         /\ stages = first.stages
         /\ console_logs = first.console_logs
    /\ pages = <<>>
    /\ calls = <<>>
    /\ response = None
    /\ endpoint = ""
    /\ capture_after = FALSE
    /\ request = 1
    /\ frames \in [Others -> ConcurrentCalls]
    /\ capture_system = TRUE
    /\ self_playwright = "open"
    /\ self_browser = "open"
    /\ self_context = "open"
    /\ connected = TRUE

\* The requests pass options that switch every optional stage off, so the
\* statements guarded by the flags are never reached.
NextConcurrent ==
    \/ CaptureNewPage
    \/ CaptureSetViewport
    \/ CaptureGoto
    \/ CaptureTitle
    \/ CaptureInteractions
    \/ CaptureReturn
    \/ CaptureFinally
    \/ InteractNewPage
    \/ InteractGoto
    \/ InteractAction
    \/ InteractDelay
    \/ InteractFinally
    \/ Resume

SpecConcurrent == InitConcurrent /\ [][NextConcurrent]_vars

---------------------------------------------------------------------------
\* Properties of interact_with_page.

\* The call has ended, by returning or by raising.
Terminal == pc \in {"returned", "raised"}

\* The initial navigation of the call succeeded.
NavOk == \E k \in DOMAIN calls :
            calls[k].op = "goto" /\ calls[k].at = 0 /\ calls[k].out = "ok"

\* close() has been awaited on page p.
CloseCalled(p) == \E k \in DOMAIN calls : calls[k].op = "close" /\ calls[k].page = p

\* The driver call awaited for action number i raised.
ActionRaised(i) == \E k \in DOMAIN calls : calls[k].at = i /\ calls[k].out = "raise"

\* A driver call was awaited for action number i and returned.
ActionReturned(i) == \E k \in DOMAIN calls : calls[k].at = i /\ calls[k].out = "ok"

\* C1: whatever the outcome of the initial navigation and of each action, the
\* list interact_with_page returns has as many entries as the action list.
C1_ResultCount ==
    (fn = "interact_with_page" /\ pc = "returned") => Len(results) = Len(actions)

\* `results` holds one result for each of the first Len(results) actions, each
\* labelled with the type of its action.
ResultsAligned ==
    /\ Len(results) <= Len(actions)
    /\ \A i \in 1..Len(results) : results[i].action = actions[i].type

\* A step leaves `results` alone or appends one result to it.
ResultsAppendOnly ==
    \/ results' = results
    \/ /\ Len(results') = Len(results) + 1
       /\ SubSeq(results', 1, Len(results)) = results

\* C2: in every state of an interaction session results[i].action equals
\* actions[i].type for every i below len(results), and every step only ever
\* appends to results: nothing is reordered, dropped or rewritten.
C2_ResultsAligned == [](ResultsAligned) /\ [][ResultsAppendOnly]_vars

\* Two results of different action types have been recorded.
C2_Witness ==
    /\ fn = "interact_with_page"
    /\ Len(results) = 2
    /\ results[1].action # results[2].action

\* C3: after a successful initial navigation, the result of an action whose
\* driver call raised has success = false and a non-empty error, and every
\* action after it has its own result when the call returns; the result of
\* an action whose driver call returned has success = true.
C3_FailureIsolated ==
    (fn = "interact_with_page" /\ pc = "returned" /\ NavOk) =>
        \A i \in 1..Len(results) :
            /\ ActionRaised(i) =>
                  /\ ~results[i].success
                  /\ results[i].error # None
                  /\ results[i].error[1] # ""
                  /\ \A j \in (i + 1)..Len(actions) : j <= Len(results)
            /\ ActionReturned(i) => results[i].success

\* Action a is a click that carries neither a selector nor coordinates.
BareClick(a) == a.type = "click" /\ a.selector = None /\ a.coordinates = None

\* C4: a click with neither selector nor coordinates yields success = false.
C4_BareClickFails ==
    fn = "interact_with_page" =>
        \A i \in 1..Len(results) :
            BareClick(actions[i]) => ~results[i].success

\* C5: an action of unrecognised type yields success = false and a non-empty
\* error, no driver call is awaited for it, and the action after it has been
\* executed when the call returns.
C5_UnknownType ==
    (fn = "interact_with_page" /\ pc = "returned" /\ NavOk) =>
        \A i \in 1..Len(results) :
            actions[i].type \notin KnownTypes =>
                /\ ~results[i].success
                /\ results[i].error # None
                /\ results[i].error[1] # ""
                /\ ~\E k \in DOMAIN calls : calls[k].at = i
                /\ i < Len(actions) => i + 1 <= Len(results)

\* C6: a page opened by interact_with_page is closed before the call returns,
\* on every path: the call always ends, close() has been awaited on the page
\* whenever it ends, and the page is closed whenever it returns.
C6_PageClosed ==
    /\ <>Terminal
    /\ []((Terminal /\ page # 0) => CloseCalled(page))
    /\ []((pc = "returned") => \A p \in 1..Len(pages) : pages[p] = "closed")

\* The call returned after a failed initial navigation, its page closed.
C6_Witness ==
    /\ fn = "interact_with_page"
    /\ pc = "returned"
    /\ ~NavOk
    /\ Len(actions) > 0
    /\ page # 0 /\ pages[page] = "closed"

---------------------------------------------------------------------------
\* Properties of capture_frontend.

\* The initial navigation of the call raised.
NavFailed == \E k \in DOMAIN calls :
                calls[k].op = "goto" /\ calls[k].at = 0 /\ calls[k].out = "raise"

\* close() raised.
CloseRaised == \E k \in DOMAIN calls : calls[k].op = "close" /\ calls[k].out = "raise"

\* Stage s of the pipeline ran and a driver call inside it raised.
StageFailed(s) ==
    /\ fn = "capture_frontend"
    /\ \E k \in DOMAIN calls :
          calls[k].at = StageIndex(s) /\ calls[k].out = "raise"

\* Stage s is asked for by the request: its flag is true, or is not given and
\* is not `responsive`; the interaction summary is always asked for.
Requested(s) ==
    \/ s = "interactions"
    \/ IF options = None \/ s \notin DOMAIN options[1]
       THEN s # "responsive"
       ELSE options[1][s]

\* The stages that own a context field and can be switched off.
OptionalStages == {"screenshot", "dom_analysis", "performance", "accessibility",
                   "responsive"}

AllStages == OptionalStages \cup {"interactions"}

\* The stages entered so far.
StagesRun == { stages[k] : k \in DOMAIN stages }

\* C7: a page opened by capture_frontend has had close() awaited on it
\* whenever the call has ended, by returning or by raising, on every path
\* after the page was obtained, a failure of the viewport resize included.
C7_CapturePageClosed ==
    (fn = "capture_frontend" /\ Terminal) =>
        \A p \in 1..Len(pages) : CloseCalled(p)

C9_FailedStageDefault ==
    (fn = "capture_frontend" /\ context # None) =>
        /\ StageFailed("screenshot") => context[1].screenshot = None
        /\ StageFailed("dom_analysis") =>
              /\ context[1].elements = <<>> /\ context[1].forms = <<>>
              /\ context[1].buttons = <<>> /\ context[1].links = <<>>
              /\ context[1].inputs = <<>> /\ context[1].interactive = <<>>
        /\ StageFailed("performance") => context[1].performance = None
        /\ StageFailed("accessibility") => context[1].accessibility = EmptyDict
        /\ StageFailed("responsive") => context[1].responsive = EmptyDict

\* The names of the breakpoints in sweep order.
BreakpointNames == <<"mobile", "tablet", "desktop">>

\* C9 as amended: the fields owned by a stage that failed hold that stage's
\* fallback value: the empty string for the screenshot, empty lists for the
\* DOM collections, a metrics record with only the measured load_time for
\* performance, {issues: [], score: 0} for accessibility, and for responsive
\* the records of the breakpoints completed before the failure.
C9_FailedStageFallback ==
    (fn = "capture_frontend" /\ context # None) =>
        /\ StageFailed("screenshot") => context[1].screenshot = Some("")
        /\ StageFailed("dom_analysis") =>
              /\ context[1].elements = <<>> /\ context[1].forms = <<>>
              /\ context[1].buttons = <<>> /\ context[1].links = <<>>
              /\ context[1].inputs = <<>> /\ context[1].interactive = <<>>
              /\ context[1].raw_html = None
        /\ StageFailed("performance") =>
              /\ context[1].performance # None
              /\ context[1].performance[1].load_time = load_time
              /\ load_time > 0
              /\ context[1].performance[1].first_contentful_paint = None
              /\ context[1].performance[1].dom_content_loaded = None
              /\ context[1].performance[1].errors = <<>>
              /\ context[1].performance[1].warnings = <<>>
        /\ StageFailed("accessibility") =>
              /\ DOMAIN context[1].accessibility = {"issues", "score"}
              /\ context[1].accessibility.issues = <<>>
              /\ context[1].accessibility.score = 0
        /\ StageFailed("responsive") =>
              /\ DOMAIN context[1].responsive = {"breakpoints", "issues"}
              /\ Len(context[1].responsive.breakpoints) < Len(BreakpointNames)
              /\ \A j \in DOMAIN context[1].responsive.breakpoints :
                    context[1].responsive.breakpoints[j].name = BreakpointNames[j]
              /\ \A j \in DOMAIN context[1].responsive.issues :
                    \E b \in DOMAIN context[1].responsive.breakpoints :
                       /\ context[1].responsive.breakpoints[b].name =
                             context[1].responsive.issues[j].breakpoint
                       /\ context[1].responsive.breakpoints[b].has_horizontal_scroll

\* The call returned a context after each of the five optional stages failed.
C9_Witness ==
    /\ fn = "capture_frontend"
    /\ pc = "returned"
    /\ context # None
    /\ \A s \in OptionalStages : StageFailed(s)
    /\ Len(context[1].responsive.breakpoints) = 2

\* C10: once a page has been obtained, capture_frontend raises exactly when
\* the navigation failed, and the endpoint then answers 500 and no context.
C10_OnlyNavigationFails ==
    (fn = "capture_frontend" /\ Terminal /\ page # 0) =>
        /\ pc = "raised" <=> NavFailed
        /\ NavFailed => context = None
        /\ response # None => (response[1].status = 500 <=> NavFailed)

---------------------------------------------------------------------------
\* Properties of POST /interact.

\* The initial navigation of the interaction session (on the first page the
\* request opened) raised.
InteractionNavFailed ==
    \E k \in DOMAIN calls :
        /\ calls[k].op = "goto" /\ calls[k].at = 0
        /\ calls[k].page = 1 /\ calls[k].out = "raise"
        /\ \E j \in 1..(k - 1) : calls[j].op = "new_page" /\ calls[j].out = "ok"
        /\ \A j \in 1..(k - 1) : calls[j].op # "close"

\* C11: when the initial navigation of an interaction session fails, the
\* /interact request is answered with an error, never with a successful
\* response carrying an empty or partial result list.
C11_NavFailureIsRequestError ==
    (endpoint = "/interact" /\ response # None /\ InteractionNavFailed) =>
        response[1].status # 200

---------------------------------------------------------------------------
\* Properties of the capture pipeline and its options.

\* The capture has passed the last stage of the pipeline.
PipelineDone ==
    fn = "capture_frontend" /\ pc \in {"return", "finally", "returned", "raised"}
    /\ context # None

\* C12 as stated: the fields owned by a stage the options disable hold an
\* empty list or an empty object and are never null: the screenshot and the
\* performance record are present.
C12_DisabledStageEmpty ==
    (fn = "capture_frontend" /\ context # None) =>
        /\ ~Requested("screenshot") => context[1].screenshot # None
        /\ ~Requested("dom_analysis") =>
              /\ context[1].elements = <<>> /\ context[1].forms = <<>>
              /\ context[1].buttons = <<>> /\ context[1].links = <<>>
              /\ context[1].inputs = <<>> /\ context[1].interactive = <<>>
        /\ ~Requested("performance") => context[1].performance # None
        /\ ~Requested("accessibility") => context[1].accessibility = EmptyDict
        /\ ~Requested("responsive") => context[1].responsive = EmptyDict

\* C12 as amended: the fields owned by a stage the options disable hold the
\* default FrontendContext declares for them: the empty list for the DOM
\* collections, the empty object for accessibility and responsive, and None
\* for the screenshot, the performance record and the raw markup.
C12_DisabledStageDefault ==
    (fn = "capture_frontend" /\ context # None) =>
        /\ ~Requested("screenshot") => context[1].screenshot = None
        /\ ~Requested("dom_analysis") =>
              /\ context[1].elements = <<>> /\ context[1].forms = <<>>
              /\ context[1].buttons = <<>> /\ context[1].links = <<>>
              /\ context[1].inputs = <<>> /\ context[1].interactive = <<>>
              /\ context[1].raw_html = None
        /\ ~Requested("performance") => context[1].performance = None
        /\ ~Requested("accessibility") => context[1].accessibility = EmptyDict
        /\ ~Requested("responsive") => context[1].responsive = EmptyDict

\* A capture of a page with markup returned with the five optional stages
\* switched off.
C12_Witness ==
    /\ fn = "capture_frontend" /\ pc = "returned"
    /\ site.nodes # <<>>
    /\ \A s \in OptionalStages : ~Requested(s)
    /\ context[1].interactions # EmptyDict

\* C13: for every option argument, each optional stage has run by the end of
\* the pipeline exactly when its flag is true (missing flags counting as true,
\* responsive as false), and the console messages of the page are in the
\* context exactly when the console_logs flag is true.
C13_FlagsControlStages ==
    PipelineDone =>
        /\ \A s \in OptionalStages : s \in StagesRun <=> Requested(s)
        /\ Requested("console_logs") => context[1].console_logs = site.console
        /\ ~Requested("console_logs") => context[1].console_logs = <<>>

\* The order the stages are claimed to start in.
ClaimedOrder == <<"screenshot", "dom_analysis", "performance", "accessibility",
                  "responsive", "interactions">>

\* Position of stage s in the claimed order.
ClaimedPos(s) == CHOOSE j \in DOMAIN ClaimedOrder : ClaimedOrder[j] = s

\* C14: the stages of one capture are entered in the order screenshot, DOM
\* analysis, performance, accessibility, responsive, interaction summary,
\* each at most once, one per step and only after the previous one has ended;
\* the driver calls of the stages follow that order in the call log and come
\* after a navigation that returned.
C14_StageOrder ==
    fn = "capture_frontend" =>
        /\ \A i, j \in DOMAIN stages :
              i < j => ClaimedPos(stages[i]) < ClaimedPos(stages[j])
        /\ stages # <<>> => NavOk
        /\ \A k, l \in DOMAIN calls :
              (k < l /\ calls[k].at > 0) =>
                  /\ calls[l].at > 0 => calls[k].at < calls[l].at
                  /\ calls[l].op # "goto"
        /\ \A k \in DOMAIN calls :
              calls[k].at > 0 =>
                  \E j \in 1..(k - 1) : calls[j].op = "goto" /\ calls[j].out = "ok"

\* A capture returned after entering all six stages.
C14_Witness ==
    /\ fn = "capture_frontend" /\ pc = "returned"
    /\ stages = ClaimedOrder

\* The keys of the interaction-capability summary.
InteractionKeys == {"clickable_count", "focusable_count", "form_count",
                    "navigation_links", "can_scroll"}

\* C15: in every capture that returns a context the interaction summary stage
\* has run and context.interactions carries the five keys, whatever the
\* options are and also when the probing inside the stage fails.
C15_InteractionsAlways ==
    (fn = "capture_frontend" /\ pc = "returned") =>
        /\ "interactions" \in StagesRun
        /\ DOMAIN context[1].interactions = InteractionKeys
        /\ context[1].interactions.form_count = Len(context[1].forms)

\* A capture returned with every flag false and the first probe of the
\* interaction summary failing.
C15_Witness ==
    /\ fn = "capture_frontend" /\ pc = "returned"
    /\ options = Some([f \in Flags |-> FALSE])
    /\ StageFailed("interactions")
    /\ context[1].interactions.clickable_count = 0
    /\ site.clickable > 0

---------------------------------------------------------------------------
\* Properties of the DOM extractors.

\* C16: for every page, the collections of the context stay within their
\* caps: at most 100 elements, 20 buttons, 30 links and 30 interactive
\* elements, however many nodes of the page match.
C16_CollectionCaps ==
    context # None =>
        /\ Len(context[1].elements) <= 100
        /\ Len(context[1].buttons) <= 20
        /\ Len(context[1].links) <= 30
        /\ Len(context[1].interactive) <= 30

\* The extraction returned for a document with more than 100 important nodes,
\* more than 20 buttons and more than 30 clickable matches, with the
\* collections at their caps.
C16_Witness ==
    /\ fn = "_analyze_dom" /\ pc = "returned"
    /\ Len(site.nodes) > 100
    /\ Len(SelectSeq(site.nodes, IsButton)) > 20
    /\ Len(context[1].elements) = 100
    /\ Len(context[1].buttons) = 20
    /\ Len(QuerySelectors(site.nodes, Len(ClickableSelectors), {})) > 30
    /\ Len(context[1].interactive) = 30

\* The method attribute of the i-th form of the document.
MethodAttribute(i) == FindAll(site.nodes, {"form"})[i].method

\* C18: the method of every extracted form is "GET" when the markup has no
\* method attribute and otherwise the attribute value in upper case: of the
\* same length, with every letter a-z replaced by its capital and every other
\* character kept; it never contains one of the letters a-z.
C18_FormMethodUpper ==
    (fn = "_analyze_dom" /\ pc = "returned") =>
        \A i \in DOMAIN context[1].forms :
            LET m == context[1].forms[i].method
                attr == MethodAttribute(i)
            IN /\ attr = None => m = <<"G", "E", "T">>
               /\ attr # None =>
                     /\ Len(m) = Len(attr[1])
                     /\ \A k \in DOMAIN m :
                           \/ m[k] = attr[1][k] /\ \A j \in DOMAIN LowerLetters :
                                                      m[k] # LowerLetters[j]
                           \/ \E j \in DOMAIN LowerLetters :
                                 attr[1][k] = LowerLetters[j] /\ m[k] = UpperLetters[j]
               /\ \A k \in DOMAIN m, j \in DOMAIN LowerLetters : m[k] # LowerLetters[j]

\* The forms of a document with a form without method attribute and a form
\* with a mixed-case one have been extracted.
C18_Witness ==
    /\ fn = "_analyze_dom" /\ pc = "returned"
    /\ Len(context[1].forms) = 2
    /\ MethodAttribute(1) = None
    /\ MethodAttribute(2) = Some(<<"P", "o", "s", "t">>)
    /\ context[1].forms[2].method = <<"P", "O", "S", "T">>

---------------------------------------------------------------------------
\* Properties of the accessibility audit.

\* max(0, 100 - 10 * n)
ClaimedScore(n) == IF 100 - 10 * n >= 0 THEN 100 - 10 * n ELSE 0

\* The audit has returned a result.
Audited == fn = "_analyze_accessibility" /\ pc = "returned"

\* The evaluation of the rules raised.
AuditFailed == \E k \in DOMAIN calls : calls[k].op = "evaluate" /\ calls[k].out = "raise"

\* C17 as stated: every result the audit returns, the one returned when the
\* evaluation of the rules fails included, has score = max(0, 100 - 10 * the
\* number of its issues).
C17_ScoreFormula ==
    Audited =>
        context[1].accessibility.score =
            ClaimedScore(Len(context[1].accessibility.issues))

\* C17 as amended: a result returned by a completed evaluation of the rules
\* has score = max(0, 100 - 10 * the number of its issues), hence 0 for ten or
\* more issues; the result returned when the evaluation fails has no issues
\* and score 0; no score is negative or above 100.
C17_ScoreFormulaEvaluated ==
    Audited =>
        LET a == context[1].accessibility
        IN /\ ~AuditFailed => a.score = ClaimedScore(Len(a.issues))
           /\ (~AuditFailed /\ Len(a.issues) >= 10) => a.score = 0
           /\ AuditFailed => (a.issues = <<>> /\ a.score = 0)
           /\ a.score \in 0..100

\* A completed audit found more than ten issues and scored 0.
C17_Witness ==
    /\ Audited /\ ~AuditFailed
    /\ Len(context[1].accessibility.issues) > 10
    /\ context[1].accessibility.score = 0

---------------------------------------------------------------------------
\* Properties of cleanup().

\* The close operations in the order they are claimed to happen.
ClaimedCloseOrder == <<"context.close", "browser.close", "playwright.stop">>

\* Whether a driver call is one of the close operations.
IsClose(c) == \E j \in DOMAIN ClaimedCloseOrder : ClaimedCloseOrder[j] = c.op

\* Position of a close operation in the claimed order.
ClosePos(c) == CHOOSE j \in DOMAIN ClaimedCloseOrder : ClaimedCloseOrder[j] = c.op

\* The close of handle h has been attempted.
CloseAttempted(h) == \E k \in DOMAIN calls : calls[k].op = CloseOp(h)

\* A close operation raised.
CleanupCloseRaised == \E k \in DOMAIN calls : IsClose(calls[k]) /\ calls[k].out = "raise"

\* The handle h was created by initialize().
Created(h) ==
    \E k \in DOMAIN calls :
        /\ calls[k].out = "ok"
        /\ calls[k].op = (CASE h = "context" -> "browser.new_context"
                            [] h = "browser" -> "browser.launch"
                            [] h = "playwright" -> "playwright.start")

\* C19: cleanup() never raises to its caller; the closes it performs happen
\* in the order context, browser, driver, each at most once; a handle that was
\* never created has no close attempted, and when no close raises cleanup()
\* returns with the close of every created handle attempted.
C19_CleanupOrder ==
    fn = "cleanup" =>
        /\ pc # "raised" /\ exc = None
        /\ \A k, l \in DOMAIN calls :
              (k < l /\ IsClose(calls[k]) /\ IsClose(calls[l])) =>
                  ClosePos(calls[k]) < ClosePos(calls[l])
        /\ \A k \in 1..Len(CleanupOrder) :
              CloseAttempted(CleanupOrder[k]) => Created(CleanupOrder[k])
        /\ (pc = "returned" /\ ~CleanupCloseRaised) =>
              \A k \in 1..Len(CleanupOrder) :
                  Created(CleanupOrder[k]) => CloseAttempted(CleanupOrder[k])

\* cleanup() returned on a session whose browser launch had failed: the
\* driver was stopped and nothing else was closed.
C19_Witness ==
    /\ fn = "cleanup" /\ pc = "returned"
    /\ Created("playwright") /\ ~Created("browser") /\ ~Created("context")
    /\ CloseAttempted("playwright")
    /\ ~CloseAttempted("browser") /\ ~CloseAttempted("context")
    /\ exc = None

\* C20: a close that fails does not keep cleanup() from the later ones: once
\* cleanup() has returned, the close of every handle that exists has been
\* attempted.
C20_CleanupStepsIsolated ==
    (fn = "cleanup" /\ pc = "returned") =>
        \A k \in 1..Len(CleanupOrder) :
            Created(CleanupOrder[k]) => CloseAttempted(CleanupOrder[k])

---------------------------------------------------------------------------
\* Properties of the page close at the end of a request.

\* C26: an error raised by page.close() at the end of capture_frontend or
\* interact_with_page is logged and never re-thrown: it never becomes the
\* exception of the call, and the request whose close raised is not answered
\* with an error because of it.
C26_CloseErrorNotRethrown ==
    /\ exc # Some(DriverError("close"))
    /\ (response # None /\ response[1].status = 500) =>
          response[1].detail # Some("Interaction failed: " \o DriverError("close"))

---------------------------------------------------------------------------
\* Properties of the order of an interaction session.

\* The positions in the log of the initial navigation.
InitialGotos == { k \in DOMAIN calls : calls[k].op = "goto" /\ calls[k].at = 0 }

\* The positions in the log of the driver calls awaited for action number i.
ActionAttempts(i) == { k \in DOMAIN calls : calls[k].at = i }

\* C27: an interaction session goes from the initial navigation through its
\* actions in order to the close of its page: the initial navigation is
\* awaited once, and has returned before any action is processed; action i + 1
\* is processed only after the result of action i is recorded; the driver call
\* of an action is awaited at most once; and nothing is awaited after the
\* close of the page.
C27_SessionOrder ==
    fn = "interact_with_page" =>
        /\ Cardinality(InitialGotos) <= 1
        /\ (page # 0 /\ pc \notin {"goto"}) => Cardinality(InitialGotos) = 1
        /\ (results # <<>> \/ pc \in {"action", "delay"}) => NavOk
        /\ \A k \in DOMAIN calls :
              calls[k].at >= 1 => \E g \in InitialGotos : g < k /\ calls[g].out = "ok"
        /\ pc = "action" => Len(results) = idx - 1
        /\ pc = "delay" => Len(results) = idx
        /\ \A i \in 1..Len(actions) :
              /\ Cardinality(ActionAttempts(i)) <= 1
              /\ ActionAttempts(i) # {} => Len(results) >= i
        /\ \A k, l \in DOMAIN calls :
              (k < l /\ calls[k].at >= 1 /\ calls[l].at >= 1) => calls[k].at < calls[l].at
        /\ \A k \in DOMAIN calls : calls[k].op = "close" => k = Len(calls)
        /\ (\E k \in DOMAIN calls : calls[k].op = "close") => Terminal

\* A session of two actions ran to its end: one navigation, one driver call
\* for each action, then the close.
C27_Witness ==
    /\ fn = "interact_with_page" /\ pc = "returned"
    /\ Len(actions) = 2 /\ Len(results) = 2
    /\ Cardinality(ActionAttempts(1)) = 1
    /\ Cardinality(ActionAttempts(2)) = 1
    /\ calls[Len(calls)].op = "close"

\* The positions in the log of the fixed inter-action delays.
Delays == { k \in DOMAIN calls :
              calls[k].op = "wait_for_timeout" /\ calls[k].at = 0 /\ calls[k].ms = 500 }

\* C28: one 500ms delay follows every processed action, after its result is
\* recorded and before the next action starts, whatever the outcome of the
\* action; and a delay that raises does not stop the remaining actions: after
\* a successful initial navigation every action has been processed when the
\* loop is left.
C28_DelayAfterEveryAction ==
    (fn = "interact_with_page" /\ (pc = "finally" \/ Terminal)) =>
        /\ Cardinality(Delays) = Len(results)
        /\ \A i \in 1..Len(results) :
              \A k \in ActionAttempts(i) :
                  /\ Cardinality({ d \in Delays : d < k }) = i - 1
                  /\ \E d \in Delays : d > k
        /\ NavOk => Len(results) = Len(actions)

---------------------------------------------------------------------------
\* Properties of the dispatch of single actions.

\* C29: a fill action with a selector and a value, the empty string included,
\* has page.fill awaited for it, with success = true when the call returns; a
\* fill action without selector or without value has no driver call and
\* success = false.
C29_FillWritesValue ==
    fn = "interact_with_page" =>
        \A i \in 1..Len(results) :
            actions[i].type = "fill" =>
                IF actions[i].selector # None /\ actions[i].value # None
                THEN /\ \E k \in ActionAttempts(i) : calls[k].op = "fill"
                     /\ ~ActionRaised(i) => results[i].success
                ELSE /\ ActionAttempts(i) = {}
                     /\ ~results[i].success

\* C30: a wait action pauses for its duration whenever one is given, zero
\* included, and for 1000ms only when none is given.
C30_WaitDuration ==
    fn = "interact_with_page" =>
        \A i \in 1..Len(results) :
            actions[i].type = "wait" =>
                \A k \in ActionAttempts(i) :
                    calls[k].ms = IF actions[i].duration = None
                                  THEN 1000
                                  ELSE actions[i].duration[1]

---------------------------------------------------------------------------
\* Properties of the session seen from the requests.

\* The driver calls of initialize().
InitializeOps == {"playwright.start", "browser.launch", "browser.new_context"}

\* A driver call of initialize() raised.
InitializeFailed ==
    \E k \in DOMAIN calls : calls[k].op \in InitializeOps /\ calls[k].out = "raise"

\* C21: when initialize() fails, at the driver start, the browser launch or
\* the context creation, the error leaves the startup hook, no call of
\* initialize() is made a second time, and no request is accepted afterwards;
\* a page is only ever created on a session whose context creation returned.
C21_FailedStartupRefuses ==
    /\ InitializeFailed =>
          /\ request = 0
          /\ fn \notin RequestFns
          /\ fn = "startup_event" =>
                /\ pc = "raised"
                /\ \E k \in DOMAIN calls :
                      /\ calls[k].out = "raise"
                      /\ exc = Some(DriverError(calls[k].op))
    /\ \A op \in InitializeOps :
          Cardinality({ k \in DOMAIN calls : calls[k].op = op }) <= 1
    /\ \A k \in DOMAIN calls :
          calls[k].op = "new_page" =>
              \E j \in 1..(k - 1) :
                  calls[j].op = "browser.new_context" /\ calls[j].out = "ok"

\* The browser launch failed: the startup hook raised its error with the
\* driver started and no browser or context.
C21_Witness ==
    /\ fn = "startup_event" /\ pc = "raised"
    /\ exc = Some(DriverError("browser.launch"))
    /\ capture_system
    /\ self_playwright = "open" /\ self_browser = "none" /\ self_context = "none"

\* A step of a request leaves the handles of the session as they are.
RequestKeepsSession ==
    fn \in RequestFns =>
        /\ self_browser' = self_browser
        /\ self_context' = self_context
        /\ self_playwright' = self_playwright

\* C22: no step of a capture or interaction request changes the browser or
\* the context handle of the session, whatever fails inside the request.
C22_RequestsKeepSession == [][RequestKeepsSession]_vars

\* A request ended with an exception after its page was created, and the
\* browser and the context of the session are still open.
C22_Witness ==
    /\ fn \in RequestFns /\ pc = "raised"
    /\ page # 0
    /\ self_browser = "open" /\ self_context = "open"

\* The step is an answer of GET /health.
HealthAnswered ==
    /\ Len(calls') = Len(calls) + 1
    /\ calls'[Len(calls')].op = "is_connected"

\* The answer of GET /health follows the rule: 503 without a capture system;
\* else browser_ready tells whether a browser handle exists and its
\* connection is alive, and the status is "healthy" when it does and
\* "degraded" when it does not.
HealthRule ==
    HealthAnswered =>
        /\ response' # None
        /\ response'[1].status = IF capture_system THEN 200 ELSE 503
        /\ capture_system =>
              /\ response'[1].body.browser_ready = (self_browser # "none" /\ connected)
              /\ response'[1].body.status =
                    IF response'[1].body.browser_ready THEN "healthy" ELSE "degraded"
        /\ (capture_system /\ self_browser = "open" /\ connected) =>
              response'[1].body.status = "healthy"

\* C25: the health status reports browser_ready exactly when a browser
\* handle exists and its connection is alive; GET /health answers 503 without
\* a capture system, "healthy" when browser_ready and "degraded" otherwise, so
\* it answers "healthy" after a successful initialize() for as long as the
\* browser stays connected.
C25_HealthStatus == [][HealthRule]_vars

\* GET /health answered "degraded" for a browser whose connection dropped
\* after a successful initialize().
C25_Witness ==
    /\ fn = "startup_event" /\ pc = "serving"
    /\ self_browser = "open" /\ ~connected
    /\ response # None
    /\ response[1].status = 200
    /\ response[1].body.status = "degraded"
    /\ ~response[1].body.browser_ready

---------------------------------------------------------------------------
\* Properties of concurrent requests.

\* The requests in flight or ended.
Requests == {request} \cup DOMAIN frames

\* The frame of request r, running or suspended.
FrameOf(r) == IF r = request THEN Frame ELSE frames[r]

\* Request r has not ended.
InFlight(r) == FrameOf(r).pc \notin {"returned", "raised"}

\* C23: under every interleaving of concurrent capture and interaction
\* requests and every pattern of failures, each open page of the shared
\* context is the page of exactly one request still in flight, and no page is
\* open once every request has ended.
C23_PagesOwned ==
    /\ \A p \in 1..Len(pages) :
          pages[p] = "open" =>
              Cardinality({ r \in Requests : InFlight(r) /\ FrameOf(r).page = p }) = 1
    /\ (\A r \in Requests : ~InFlight(r)) =>
          \A p \in 1..Len(pages) : pages[p] = "closed"

\* The positions in the log of the new_page() calls that returned a page.
PagesCreated == { k \in DOMAIN calls : calls[k].op = "new_page" /\ calls[k].out = "ok" }

\* The request that opened page p.
Opener(p) ==
    calls[CHOOSE k \in PagesCreated : Cardinality({ j \in PagesCreated : j <= k }) = p].by

\* Request r resized its page at the start of capture_frontend.
Resized(r) ==
    \E k \in DOMAIN calls :
        /\ calls[k].op = "set_viewport_size" /\ calls[k].at = 0
        /\ calls[k].by = r /\ calls[k].out = "ok"

\* C24: concurrent requests work on their own pages only: every navigation,
\* resize and action is awaited on a page opened by the request that awaits
\* it, the page a request holds is the one it opened, and the viewport of the
\* page of a capture is the one its own request gave it, under every
\* interleaving.
C24_PagesIsolated ==
    /\ \A k \in DOMAIN calls :
          calls[k].page # 0 => calls[k].by = Opener(calls[k].page)
    /\ \A r \in Requests :
          FrameOf(r).page # 0 =>
              /\ Opener(FrameOf(r).page) = r
              /\ FrameOf(r).fn = "capture_frontend" =>
                    FrameOf(r).viewport_size =
                        IF Resized(r) THEN FrameOf(r).viewport[1] ELSE ContextViewport

\* Two requests hold two open pages at the same time, each has navigated its
\* own, one has resized its page and the other has run an action, and the
\* event loop went back and forth between them.
C24_Witness ==
    /\ \A r \in Requests : InFlight(r) /\ FrameOf(r).page # 0
    /\ \A p \in 1..Len(pages) : pages[p] = "open"
    /\ Len(pages) = 2
    /\ \A p \in 1..2 :
          \E k \in DOMAIN calls :
              calls[k].op = "goto" /\ calls[k].page = p /\ calls[k].out = "ok"
    /\ \E r \in Requests : Resized(r)
    /\ \E k \in DOMAIN calls : calls[k].at >= 1 /\ calls[k].op = "click"
    /\ Cardinality(Switches) >= 2

---------------------------------------------------------------------------
\* Properties of the responsive sweep.

\* The fixed list of breakpoints the sweep is claimed to follow.
ClaimedBreakpoints ==
    << <<"mobile", 375, 667>>, <<"tablet", 768, 1024>>, <<"desktop", 1280, 720>> >>

\* The record reports a horizontal scrollbar.
HasScroll(r) == r.has_horizontal_scroll

\* The names of the recorded breakpoints that overflow, in order.
OverflowingNames(records) ==
    LET over == SelectSeq(records, HasScroll)
    IN [j \in 1..Len(over) |-> over[j].name]

\* C31: in every responsive result, complete or cut short, the breakpoint
\* records are a prefix of mobile 375x667, tablet 768x1024, desktop 1280x720,
\* the issue list has exactly one horizontal_overflow entry for each recorded
\* breakpoint that has a horizontal scrollbar, in the same order, and the
\* stage leaves no exception behind.
C31_ResponsivePrefix ==
    (fn = "capture_frontend" /\ "responsive" \in StagesRun) =>
        LET res == context[1].responsive
        IN /\ Len(res.breakpoints) <= Len(ClaimedBreakpoints)
           /\ \A j \in 1..Len(res.breakpoints) :
                 <<res.breakpoints[j].name, res.breakpoints[j].width,
                   res.breakpoints[j].height>> = ClaimedBreakpoints[j]
           /\ [j \in 1..Len(res.issues) |-> res.issues[j].breakpoint]
                 = OverflowingNames(res.breakpoints)
           /\ \A j \in 1..Len(res.issues) : res.issues[j].issue = "horizontal_overflow"
           /\ pc # "raised" => exc = None
           /\ pc \notin {"finally", "raised", "returned"} => exc = None

\* A sweep cut short after two breakpoints on a page 800 pixels wide: both
\* recorded breakpoints overflow and each has its issue.
C31_Witness ==
    /\ fn = "capture_frontend" /\ pc = "returned"
    /\ StageFailed("responsive")
    /\ Len(context[1].responsive.breakpoints) = 2
    /\ Len(context[1].responsive.issues) = 2
    /\ context[1].responsive.breakpoints[1].has_horizontal_scroll

---------------------------------------------------------------------------
\* Properties of the fallbacks of the auditor and of the performance probe.

\* The pipeline has been left: the return statement has been reached.
PipelineLeft == pc \in {"return", "finally", "returned", "raised"}

\* C32: when the evaluation of the accessibility rules fails, the audit
\* result is an empty issue list with score 0, no exception is put in flight,
\* and the capture goes on with the responsive sweep (when asked for) and the
\* interaction summary.
C32_AuditFailureContinues ==
    StageFailed("accessibility") =>
        /\ context[1].accessibility = [issues |-> <<>>, score |-> 0]
        /\ pc # "raised" => exc = None
        /\ pc = "raised" => CloseRaised
        /\ PipelineLeft =>
              /\ "interactions" \in StagesRun
              /\ Requested("responsive") => "responsive" \in StagesRun

\* A capture returned after its audit failed and its responsive sweep and
\* interaction summary ran.
C32_Witness ==
    /\ StageFailed("accessibility")
    /\ pc = "returned"
    /\ stages[Len(stages)] = "interactions"
    /\ stages[Len(stages) - 1] = "responsive"
    /\ stages[Len(stages) - 2] = "accessibility"
    /\ context[1].accessibility.score = 0

\* C33: whenever the performance stage is enabled and the pipeline has been
\* left after a successful navigation, context.performance is a metrics
\* record whose load_time is the measured navigation duration; when the
\* timing retrieval failed, the record has no first_contentful_paint and no
\* dom_content_loaded and its error and warning lists are empty.
C33_PerformanceRecord ==
    (fn = "capture_frontend" /\ context # None /\ PipelineLeft
       /\ Requested("performance")) =>
        /\ "performance" \in StagesRun
        /\ context[1].performance # None
        /\ load_time >= 1
        /\ context[1].performance[1].load_time = load_time
        /\ StageFailed("performance") =>
              /\ context[1].performance[1].first_contentful_paint = None
              /\ context[1].performance[1].dom_content_loaded = None
              /\ context[1].performance[1].largest_contentful_paint = None
              /\ context[1].performance[1].errors = <<>>
              /\ context[1].performance[1].warnings = <<>>
        /\ ~StageFailed("performance") =>
              /\ context[1].performance[1].first_contentful_paint
                    = site.timing.firstContentfulPaint
              /\ context[1].performance[1].dom_content_loaded
                    = site.timing.domContentLoaded

\* A capture returned with the fallback record of a failed timing retrieval.
C33_Witness ==
    /\ fn = "capture_frontend" /\ pc = "returned"
    /\ StageFailed("performance")
    /\ context[1].performance # None
    /\ context[1].performance[1].load_time = load_time
    /\ context[1].performance[1].dom_content_loaded = None
    /\ site.timing.domContentLoaded # None

---------------------------------------------------------------------------
\* Properties of the rules of the audit.

\* The levels the heading rule is claimed to flag: walking the levels in
\* document order from position k with the running last level `last`, those
\* that exceed last + 1.
RECURSIVE SkippedLevels(_, _, _)
SkippedLevels(levels, k, last) ==
    IF k > Len(levels) THEN <<>>
    ELSE (IF levels[k] > last + 1 THEN <<levels[k]>> ELSE <<>>)
         \o SkippedLevels(levels, k + 1, levels[k])

\* The issue is one of the heading rule.
IsHeadingIssue(i) == i.type = "heading_hierarchy"

\* The issue is one of the image rule.
IsImageIssue(i) == i.type = "missing_alt_text"

\* C34: for every sequence of heading levels the audit emits one
\* heading_hierarchy issue, of medium severity, for each heading whose level
\* is more than one above the level of the heading before it (0 before the
\* first), in document order, and none for any other heading.
C34_HeadingSkips ==
    (Audited /\ ~AuditFailed) =>
        LET found == SelectSeq(context[1].accessibility.issues, IsHeadingIssue)
            claimed == SkippedLevels(site.headings, 1, 0)
        IN /\ Len(found) = Len(claimed)
           /\ \A j \in 1..Len(found) :
                 /\ found[j].element = "h" \o ToString(claimed[j])
                 /\ found[j].severity = "medium"

\* The audit of a page whose headings are h2 then h4 flagged both: h2 against
\* the starting level 0 and h4 against h2.
C34_Witness ==
    /\ Audited /\ ~AuditFailed
    /\ site.headings = <<2, 4>>
    /\ Len(SelectSeq(context[1].accessibility.issues, IsHeadingIssue)) = 2

\* C35: the audit emits a missing_alt_text issue for an image exactly when
\* the image has neither an alt attribute, whatever its value, the empty
\* string included, nor an aria-label.
C35_MissingAltText ==
    (Audited /\ ~AuditFailed) =>
        LET found == SelectSeq(context[1].accessibility.issues, IsImageIssue)
        IN \A k \in DOMAIN site.images :
              (\E j \in DOMAIN found : found[j].element = NthChild("img", k))
                  <=> (site.images[k].alt = None /\ site.images[k].aria = None)

---------------------------------------------------------------------------
\* C36: the text of the records of the DOM collections.

\* The DOMElement records of the collections of a context; the inputs and
\* submit buttons of forms are not modelled.
ContextElements(ctx) ==
    { ctx.elements[i] : i \in DOMAIN ctx.elements }
    \cup { ctx.buttons[i] : i \in DOMAIN ctx.buttons }
    \cup { ctx.links[i] : i \in DOMAIN ctx.links }
    \cup { ctx.inputs[i] : i \in DOMAIN ctx.inputs }

\* C36: every DOMElement record in every collection of a context has text
\* content of at most 200 characters.
C36_TextTruncated ==
    context # None =>
        \A e \in ContextElements(context[1]) :
            e.text # None => Len(e.text[1]) <= TextCap

---------------------------------------------------------------------------
\* The console listener of capture_frontend (capture.py 107-110) on a page
\* that keeps logging after it has loaded.

\* Most messages a page logs after its load.
MaxLate == 2

\* The messages a page logs after its load, from a timer or a late script.
LateMessages == { [i \in 1..k |-> "warning: tick"] : k \in 1..MaxLate }

\* The form page, logging `late` after its load.
LatePage(late) ==
    [f \in DOMAIN FormPage \cup {"late"} |->
        IF f = "late" THEN late ELSE FormPage[f]]

\* How many of the late messages the listener has received.
LateReceived == Len(console_logs) - Len(site.console)

\* `lambda msg: console_logs.append(f"{msg.type}: {msg.text}")` (110), called
\* while the coroutine waits at an await after the navigation and the page is
\* open.  The list appended to is the local one: FrontendContext (123-129)
\* holds the list built when its console_logs field (models.py 99) was
\* validated.
ConsoleMessage ==
    /\ fn = "capture_frontend"
    /\ pc \notin {"new_page", "set_viewport", "goto"}
    /\ \E k \in DOMAIN calls : calls[k].op = "goto" /\ calls[k].out = "ok"
    /\ page \in DOMAIN pages /\ pages[page] = "open"
    /\ LateReceived < Len(site.late)
    /\ console_logs' = Append(console_logs, site.late[LateReceived + 1])
    /\ UNCHANGED <<fn, pc, pages, page, exc, calls, interactVars, site, options,
                   viewport, viewport_size, load_time, context, stages, response,
                   requestVars, sessionVars>>

InitConsole ==
    /\ fn = "capture_frontend"
    /\ pc = "new_page"
    /\ pages = <<>>
    /\ page = 0
    /\ exc = None
    /\ calls = <<>>
    /\ actions = <<>>
    /\ idx = 1
    /\ results = <<>>
    /\ site \in { LatePage(late) : late \in LateMessages }
    /\ options \in ServedOptions
    /\ viewport \in Viewports
    /\ viewport_size = None
    /\ load_time = 0
    /\ context = None
    /\ stages = <<>>
    /\ response = None
    /\ console_logs = <<>>
    /\ endpoint = "/capture"
    /\ capture_after = FALSE
    /\ request = 1
    /\ frames = <<>>
    /\ capture_system = TRUE
    /\ self_playwright = "open"
    /\ self_browser = "open"
    /\ self_context = "open"
    /\ connected = TRUE

NextConsole ==
    \/ CaptureNewPage
    \/ CaptureSetViewport
    \/ CaptureGoto
    \/ CaptureTitle
    \/ CaptureInteractions
    \/ CaptureReturn
    \/ CaptureFinally
    \/ CaptureRespond
    \/ ConsoleMessage

SpecConsole == InitConsole /\ [][NextConsole]_vars

\* C37: the listener is attached before the navigation, so every message the
\* page emits from the start of the navigation on is in the console_logs of
\* the context, in emission order.
C37_ConsoleComplete ==
    context # None => context[1].console_logs = console_logs

---------------------------------------------------------------------------
\* C38: the order of the elements list.

\* The nodes of the document with the k-th important tag, in document order.
TagMatches(k) == SelectSeq(site.nodes, LAMBDA n : n.tag = ImportantTags[k])

\* The nodes found by scanning the first k important tags in their order and,
\* for each tag, its matches in document order.
RECURSIVE FoundOrder(_)
FoundOrder(k) == IF k = 0 THEN <<>> ELSE FoundOrder(k - 1) \o TagMatches(k)

\* C38: the elements list is the first 100 entries, in first-found order, of
\* the scan of the important tags in their fixed order with, for each tag, its
\* matches in document order: the i-th element is built from the i-th node
\* found, and no earlier-found node is left out for a later one.
C38_FirstFoundOrder ==
    (fn = "_analyze_dom" /\ context[1].raw_html # None) =>
        LET found == FoundOrder(Len(ImportantTags))
            elements == context[1].elements
        IN /\ Len(elements) = IF Len(found) < 100 THEN Len(found) ELSE 100
           /\ \A i \in DOMAIN elements :
                /\ elements[i].tag = found[i].tag
                /\ elements[i].type = found[i].type
                /\ elements[i].href = found[i].href

\* The extraction returned for a document with more than 100 important nodes
\* whose first node has a tag scanned after the tag of the nodes behind it:
\* the list starts with a later node of the document and the first node is
\* left out.
C38_Witness ==
    /\ fn = "_analyze_dom" /\ pc = "returned"
    /\ context[1].raw_html # None
    /\ Len(FoundOrder(Len(ImportantTags))) > 100
    /\ Len(context[1].elements) = 100
    /\ site.nodes[1].tag # context[1].elements[1].tag
    /\ \A i \in DOMAIN context[1].elements :
         context[1].elements[i].tag # site.nodes[1].tag

---------------------------------------------------------------------------
\* C39: the follow-up capture of an interaction request.

\* The pages of the request that are open.
OpenPages == { p \in DOMAIN pages : pages[p] = "open" }

\* The follow-up capture has started.
FollowUpStarted == endpoint = "/interact" /\ fn = "capture_frontend"

\* Every action of the request has been processed: it has its result.
ActionsProcessed == Len(results) = Len(actions)

\* The follow-up capture starts with the interaction page closed, works on a
\* page opened after it, and has performance, accessibility and responsive
\* switched off.
FollowUpOnNewPage ==
    FollowUpStarted =>
        /\ pages[1] = "closed"
        /\ page # 0 => (page = 2 /\ Len(pages) = 2)
        /\ options = Some(CaptureAfterOptions)
        /\ ~StageEnabled("performance")
        /\ ~StageEnabled("accessibility")
        /\ ~StageEnabled("responsive")

\* At most one page of the request is open, and a second page is opened only
\* with capture_after set.
OnePageAtATime ==
    /\ Cardinality(OpenPages) <= 1
    /\ ~capture_after => Len(pages) <= 1

\* C39: with capture_after set the follow-up capture starts only after every
\* action has been processed and the interaction page has been closed, runs
\* on a newly opened page with performance, accessibility and responsive
\* disabled, and the request never holds more than one open page; with
\* capture_after unset no second page is opened.
C39_FollowUpCapture ==
    /\ FollowUpStarted => ActionsProcessed
    /\ FollowUpOnNewPage
    /\ OnePageAtATime

---------------------------------------------------------------------------
\* C40: the viewport after the responsive sweep.

\* The sweep ran through all its breakpoints.
SweepCompleted ==
    /\ fn = "capture_frontend"
    /\ "responsive" \in StagesRun
    /\ ~StageFailed("responsive")

\* The size of the last breakpoint, 1280x720.
LastBreakpointSize == [width |-> 1280, height |-> 720]

\* The viewport the page has right after the navigation: the one the request
\* asked for, or the one of the browser context without such a request.
ViewportAtNavigation ==
    IF viewport # None /\ DOMAIN viewport[1] # {} THEN viewport[1]
    ELSE [width |-> 1280, height |-> 720]

\* C40: the sweep does not restore the viewport: once a sweep has completed
\* the page viewport is 1280x720 whatever the request asked for, it stays so
\* while the interaction summary is computed and until the call ends, and
\* the viewport of the context is the one read right after the navigation.
C40_SweepLeavesViewport ==
    SweepCompleted =>
        /\ viewport_size = LastBreakpointSize
        /\ context[1].viewport = ViewportAtNavigation

\* A capture asked for at 375x667 returned after a completed sweep and the
\* interaction summary: the page is at 1280x720 and the context reports
\* 375x667.
C40_Witness ==
    /\ fn = "capture_frontend" /\ pc = "returned"
    /\ SweepCompleted
    /\ "interactions" \in StagesRun
    /\ viewport = Some([width |-> 375, height |-> 667])
    /\ viewport_size = [width |-> 1280, height |-> 720]
    /\ context[1].viewport = [width |-> 375, height |-> 667]

=============================================================================
